---- MODULE Spec2Model ----
(***************************************************************************)
(* A model of mcp-phpunit: the patch engine McpClient.apply_fix and the    *)
(* iteration controller McpClient.process_phpunit_errors.                  *)
(*                                                                         *)
(* Text (file contents, search and replace texts) is a sequence of tokens. *)
(* A token stands for a piece of PHP text:                                 *)
(*   "pub" "priv" "prot"  an access modifier with its trailing whitespace  *)
(*   "fF" "fG"            "function f(" and "function g("                  *)
(*   "lb" "rb"            "{" and "}"                                      *)
(*   "rp" "sc"            ")" and ";"                                      *)
(*   "div"                "->divide(4, 0"                                  *)
(*   "nl" "sp"            a line break and a blank                         *)
(*   "x" "y" "z"          other text                                       *)
(***************************************************************************)
EXTENDS Integers, Sequences, FiniteSets, TLC

(***************************************************************************)
(* Python's str operations, on token sequences.                            *)
(***************************************************************************)

Modifiers == {"pub", "priv", "prot"}

FnTokens == {"fF", "fG"}

Whitespace == {"nl", "sp"}

\* s[i..j] as Python's s[i-1:j]
Slice(s, i, j) == SubSeq(s, i, j)

\* t occurs in s at position i (1-based)
OccursAt(s, t, i) ==
    /\ i >= 1
    /\ i + Len(t) - 1 <= Len(s)
    /\ \A k \in 1..Len(t) : s[i + k - 1] = t[k]

\* Python's  t in s
Contains(s, t) == \E i \in 1..(Len(s) + 1) : OccursAt(s, t, i)

\* Python's  s.find(t, from), 1-based; 0 when there is none
FindFrom(s, t, from) ==
    LET hits == {i \in from..(Len(s) + 1) : OccursAt(s, t, i)}
    IN  IF hits = {} THEN 0 ELSE CHOOSE i \in hits : \A j \in hits : i <= j

RECURSIVE ReplaceFrom(_, _, _, _)
\* s.replace(old, new) for a non-empty old, scanning from position from
ReplaceFrom(s, old, new, from) ==
    LET i == FindFrom(s, old, from)
    IN  IF i = 0 THEN Slice(s, from, Len(s))
        ELSE Slice(s, from, i - 1) \o new \o ReplaceFrom(s, old, new, i + Len(old))

RECURSIVE Interleave(_, _, _)
\* s.replace("", new): new before every token and at the end
Interleave(s, new, from) ==
    IF from > Len(s) THEN new
    ELSE new \o <<s[from]>> \o Interleave(s, new, from + 1)

\* Python's  s.replace(old, new): every non-overlapping occurrence, left to right
Replace(s, old, new) ==
    IF old = <<>> THEN Interleave(s, new, 1) ELSE ReplaceFrom(s, old, new, 1)

RECURSIVE LStrip(_)
LStrip(s) == IF s /= <<>> /\ Head(s) \in Whitespace THEN LStrip(Tail(s)) ELSE s

RECURSIVE RStrip(_)
RStrip(s) ==
    IF s /= <<>> /\ s[Len(s)] \in Whitespace THEN RStrip(Slice(s, 1, Len(s) - 1)) ELSE s

\* Python's  s.strip()
Strip(s) == LStrip(RStrip(s))

RECURSIVE SplitLines(_)
\* Python's  s.split('\n'): always at least one line
SplitLines(s) ==
    LET i == FindFrom(s, <<"nl">>, 1)
    IN  IF i = 0 THEN <<s>>
        ELSE <<Slice(s, 1, i - 1)>> \o SplitLines(Slice(s, i + 1, Len(s)))

RECURSIVE JoinLines(_)
\* Python's  '\n'.join(lines)
JoinLines(lines) ==
    IF lines = <<>> THEN <<>>
    ELSE IF Len(lines) = 1 THEN lines[1]
    ELSE lines[1] \o <<"nl">> \o JoinLines(Tail(lines))

(***************************************************************************)
(* apply_fix: the three matching tiers.                                    *)
(***************************************************************************)

\* tier 1: fix["search"] in content, content.replace(search, replace)
ExactFound(content, search) == Contains(content, search)

ExactCandidate(content, search, replace) == Replace(content, search, replace)

\* re.search(r'function\s+(\w+)', search): the leftmost function token, "" if none
ExtractFunctionName(search) ==
    LET hits == {i \in 1..Len(search) : search[i] \in FnTokens}
    IN  IF hits = {} THEN ""
        ELSE search[CHOOSE i \in hits : \A j \in hits : i <= j]

\* The four declaration patterns tried on the file, in order: the bare
\* function pattern, then the public, private and protected ones.
MethodPatterns == <<"none", "pub", "priv", "prot">>

\* Where a match of pattern kind for function fn that starts at i ends, 0 if
\* there is none:  [modifier\s+]function\s+fn\s*\([^{]*\{.*?\}  with re.DOTALL:
\* up to the first "{" after the declaration, then lazily up to the first "}".
MethodMatchEnd(content, fn, kind, i) ==
    LET p == IF kind = "none" THEN i ELSE i + 1
        startsHere == /\ p <= Len(content)
                      /\ content[p] = fn
                      /\ (kind /= "none" => content[i] = kind)
        b == FindFrom(content, <<"lb">>, p + 1)
        e == IF b = 0 THEN 0 ELSE FindFrom(content, <<"rb">>, b + 1)
    IN  IF startsHere THEN e ELSE 0

RECURSIVE MethodMatchesFrom(_, _, _, _)
\* re.finditer: the non-overlapping matches from position pos, as <<start, end>>
MethodMatchesFrom(content, fn, kind, pos) ==
    LET starts == {i \in pos..Len(content) : MethodMatchEnd(content, fn, kind, i) /= 0}
    IN  IF starts = {} THEN <<>>
        ELSE LET i == CHOOSE a \in starts : \A c \in starts : a <= c
                 e == MethodMatchEnd(content, fn, kind, i)
             IN  <<(<<i, e>>)>> \o MethodMatchesFrom(content, fn, kind, e + 1)

MethodMatches(content, fn, kind) == MethodMatchesFrom(content, fn, kind, 1)

\* The first pattern, in order, with exactly one match; 0 if none. A pattern
\* with several matches prints a warning and the loop goes on to the next.
MethodPatternUsed(content, fn) ==
    LET single == {k \in 1..Len(MethodPatterns) :
                      Len(MethodMatches(content, fn, MethodPatterns[k])) = 1}
    IN  IF fn = "" \/ single = {} THEN 0
        ELSE CHOOSE k \in single : \A j \in single : k <= j

MethodFound(content, search) ==
    MethodPatternUsed(content, ExtractFunctionName(search)) /= 0

\* matched_method = method_matches[0].group(0)
MatchedMethod(content, search) ==
    LET fn == ExtractFunctionName(search)
        k  == MethodPatternUsed(content, fn)
        m  == MethodMatches(content, fn, MethodPatterns[k])[1]
    IN  Slice(content, m[1], m[2])

MethodCandidate(content, search, replace) ==
    Replace(content, MatchedMethod(content, search), replace)

\* tier 3: the windows of len(search_lines) lines of content.strip() whose
\* first and last lines contain the first and last search line (all stripped)
LineWindows(content, search) ==
    LET sl == SplitLines(Strip(search))
        cl == SplitLines(Strip(content))
        k  == Len(sl)
    IN  IF k <= 1 THEN {}
        ELSE {i \in 1..(Len(cl) - k + 1) :
                 /\ Contains(Strip(cl[i]), Strip(sl[1]))
                 /\ Contains(Strip(cl[i + k - 1]), Strip(sl[k]))}

LineFound(content, search) == LineWindows(content, search) /= {}

\* match_block of the first accepted window
MatchBlock(content, search) ==
    LET w  == LineWindows(content, search)
        i  == CHOOSE a \in w : \A c \in w : a <= c
        cl == SplitLines(Strip(content))
        k  == Len(SplitLines(Strip(search)))
    IN  JoinLines(Slice(cl, i, i + k - 1))

LineCandidate(content, search, replace) ==
    Replace(content, MatchBlock(content, search), replace)

\* mutant: the line-block tier is tried before the other two
TierOf_LineFirst(content, search) ==
    IF LineFound(content, search) THEN "line"
    ELSE IF ExactFound(content, search) THEN "exact"
    ELSE IF MethodFound(content, search) THEN "method"
    ELSE "none"

\* The tier that apply_fix uses for a directive on a content
TierOf(content, search) ==
    IF ExactFound(content, search) THEN "exact"
    ELSE IF MethodFound(content, search) THEN "method"
    ELSE IF LineFound(content, search) THEN "line"
    ELSE "none"

\* new_content of that tier
Candidate(content, search, replace) ==
    LET t == TierOf(content, search)
    IN  IF t = "exact" THEN ExactCandidate(content, search, replace)
        ELSE IF t = "method" THEN MethodCandidate(content, search, replace)
        ELSE IF t = "line" THEN LineCandidate(content, search, replace)
        ELSE content

(***************************************************************************)
(* check_php_syntax and fix_php_syntax_errors.                             *)
(*                                                                         *)
(* php -l is an external program: its verdict on a content is an input of  *)
(* the model.  Of its error message only what fix_php_syntax_errors reads  *)
(* is kept: mm    "Multiple access type modifiers are not allowed" occurs, *)
(*          line  the N of "on line N" (0: none),                          *)
(*          unexp "syntax error, unexpected" and "expecting" both occur,   *)
(*          brace "unexpected }" occurs.                                   *)
(***************************************************************************)

MaxErrLine == 2

Messages == [mm : BOOLEAN, line : 0..MaxErrLine, unexp : BOOLEAN, brace : BOOLEAN]

\* what check_php_syntax can return: (True, ...) or (False, message); a
\* failure to run php at all is (False, "Error checking PHP syntax: ...")
Verdicts == [valid : {TRUE}, msg : {[mm |-> FALSE, line |-> 0, unexp |-> FALSE, brace |-> FALSE]}]
            \cup [valid : {FALSE}, msg : Messages]

\* leftmost i with two adjacent modifiers at i, i+1 from position from; 0 if none
FindModifierPair(s, from) ==
    LET hits == {i \in from..(Len(s) - 1) : s[i] \in Modifiers /\ s[i + 1] \in Modifiers}
    IN  IF hits = {} THEN 0 ELSE CHOOSE i \in hits : \A j \in hits : i <= j

RECURSIVE SubModifierPairs(_, _, _)
\* re.sub(r'(public|private|protected)\s+(public|private|protected)\s+', r, s)
SubModifierPairs(s, r, from) ==
    LET i == FindModifierPair(s, from)
    IN  IF i = 0 THEN Slice(s, from, Len(s))
        ELSE Slice(s, from, i - 1) \o <<r>> \o SubModifierPairs(s, r, i + 2)

\* first attempt: the line the message names, if it holds a modifier pair
LineRepair(content, line) ==
    LET lines == SplitLines(content)
        ok    == line >= 1 /\ line <= Len(lines)
        i     == IF ok THEN FindModifierPair(lines[line], 1) ELSE 0
    IN  IF i = 0 THEN [fixed |-> FALSE, content |-> content]
        ELSE [fixed   |-> TRUE,
              content |-> JoinLines([lines EXCEPT
                              ![line] = SubModifierPairs(lines[line], lines[line][i], 1)])]

\* leftmost i with modifier, modifier, function at i, i+1, i+2 from position from
FindCompletePattern(s, from) ==
    LET hits == {i \in from..(Len(s) - 2) :
                    s[i] \in Modifiers /\ s[i + 1] \in Modifiers /\ s[i + 2] \in FnTokens}
    IN  IF hits = {} THEN 0 ELSE CHOOSE i \in hits : \A j \in hits : i <= j

RECURSIVE CompleteMatches(_, _)
\* list(re.finditer(complete_pattern, content)): the pairs <<m1, m2>> matched
CompleteMatches(s, from) ==
    LET i == FindCompletePattern(s, from)
    IN  IF i = 0 THEN <<>> ELSE <<(<<s[i], s[i + 1]>>)>> \o CompleteMatches(s, i + 3)

RECURSIVE ReplaceBeforeFn(_, _, _)
\* s.replace("m1 m2 function", "m1 function")
ReplaceBeforeFn(s, pair, from) ==
    LET hits == {i \in from..(Len(s) - 2) :
                    s[i] = pair[1] /\ s[i + 1] = pair[2] /\ s[i + 2] \in FnTokens}
        i    == IF hits = {} THEN 0 ELSE CHOOSE a \in hits : \A c \in hits : a <= c
    IN  IF i = 0 THEN Slice(s, from, Len(s))
        ELSE Slice(s, from, i - 1) \o <<pair[1]>> \o ReplaceBeforeFn(s, pair, i + 2)

RECURSIVE ApplyCompleteMatches(_, _)
ApplyCompleteMatches(s, matches) ==
    IF matches = <<>> THEN s
    ELSE ApplyCompleteMatches(ReplaceBeforeFn(s, Head(matches), 1), Tail(matches))

\* second attempt: the scan of the whole content
ScanRepair(content) ==
    LET ms == CompleteMatches(content, 1)
    IN  [fixed |-> ms /= <<>>, content |-> ApplyCompleteMatches(content, ms)]

\* the table of duplicate-modifier patterns, in order: <<m1, m2, replacement>>
ModifierTable ==
    << <<"pub", "pub", "pub">>,   <<"prot", "prot", "prot">>, <<"priv", "priv", "priv">>,
       <<"pub", "prot", "prot">>, <<"prot", "pub", "prot">>,
       <<"pub", "priv", "priv">>, <<"priv", "pub", "priv">> >>

RECURSIVE ApplyTable(_, _)
\* for each row in order: if re.search(pattern, s) then re.sub(pattern, repl, s);
\* the result and whether any row fired
ApplyTable(r, k) ==
    IF k > Len(ModifierTable) THEN r
    ELSE LET row == ModifierTable[k]
             pat == <<row[1], row[2]>>
         IN  IF Contains(r.content, pat)
             THEN ApplyTable([fixed |-> TRUE, content |-> Replace(r.content, pat, <<row[3]>>)], k + 1)
             ELSE ApplyTable(r, k + 1)

DoubleClose == <<"rp", "sc", "rp">>

DivideDefect == <<"div", "rp", "rp", "sc">>

\* the unexpected-token rules
TokenRepair(r, msg) ==
    LET a == IF msg.unexp /\ Contains(r.content, DoubleClose)
             THEN [fixed |-> TRUE, content |-> Replace(r.content, DoubleClose, <<"rp", "sc">>)]
             ELSE r
    IN  IF msg.unexp /\ msg.brace /\ Contains(a.content, DivideDefect)
        THEN [fixed |-> TRUE, content |-> Replace(a.content, DivideDefect, <<"div", "rp", "sc">>)]
        ELSE a

\* fix_php_syntax_errors(content, error_message) = (is_fixed, fixed_content)
fix_php_syntax_errors(content, msg) ==
    LET none == [fixed |-> FALSE, content |-> content]
        a    == IF msg.mm THEN LineRepair(content, msg.line) ELSE none
        b    == IF msg.mm /\ ~a.fixed THEN ScanRepair(content) ELSE a
    IN  TokenRepair(ApplyTable(b, 1), msg)

(***************************************************************************)
(* The file system and the directives.                                     *)
(*                                                                         *)
(* A path is a sequence of components.  The project is /p; its files are   *)
(* a source file, a test file that holds a known defect, two library       *)
(* files, one found only by the directory walk and one that has the name   *)
(* of the source file, and two files under vendor/.                        *)
(***************************************************************************)

ProjectPath == <<"p">>

SrcA == <<"p", "src", "A.php">>

TestT == <<"p", "tests", "T.php">>

LibB == <<"p", "lib", "B.php">>

LibA == <<"p", "lib", "A.php">>

VendorA == <<"p", "vendor", "lib", "A.php">>

VendorV == <<"p", "vendor", "lib", "V.php">>

Files == {SrcA, TestT, LibB, LibA, VendorA, VendorV}

InitialContent(f) ==
    IF f = SrcA THEN <<"pub", "fF", "lb", "x", "rb", "nl", "y", "nl", "z">>
    ELSE IF f = TestT THEN <<"x", "rp", "sc", "rp">>
    ELSE <<"x">>

\* the working directories the tool is started from
WorkingDirs == {ProjectPath, <<"p", "vendor", "lib">>}

\* "vendor" in path.split(os.path.sep)
HasVendorComponent(path) == \E i \in 1..Len(path) : path[i] = "vendor"

\* the protected zone: a file with a vendor directory above it
Protected(f) == HasVendorComponent(Slice(f, 1, Len(f) - 1))

\* file_path of a directive: what precedes the first component, and the components
Raw(lead, comps) == [lead |-> lead, comps |-> comps]

\* fix["file_path"].lstrip('./'): the leading dots and slashes go
Normalize(raw) == raw.comps

IsFile(path) == path \in Files

\* os.path.basename(normalized_path)
Basename(comps) == IF comps = <<>> THEN "" ELSE comps[Len(comps)]

\* the directories of the project, for os.walk
Dirs == UNION {{Slice(f, 1, k) : k \in 1..(Len(f) - 1)} : f \in Files}

IsPrefix(a, b) == Len(a) <= Len(b) /\ Slice(b, 1, Len(a)) = a

\* "vendor" not in candidate_path: a substring test on the whole path
HasVendorSubstring(path) == \E i \in 1..Len(path) : path[i] \in {"vendor"}

\* os.walk(project_path), top-down: the directories that hold basename and are
\* not skipped; a directory is visited before the directories below it, the
\* order among siblings is the directory listing's
WalkHits(basename) ==
    {d \in Dirs : /\ IsPrefix(ProjectPath, d)
                  /\ ~HasVendorComponent(d)
                  /\ IsFile(Append(d, basename))
                  /\ ~HasVendorSubstring(Append(d, basename))}

WalkFirst(basename) ==
    {Append(d, basename) : d \in {h \in WalkHits(basename) :
        \A g \in WalkHits(basename) : IsPrefix(g, h) => g = h}}

\* The file apply_fix settles on, as the set of files it can be ({}: none).
\* possible_paths are the project-joined path, the path as normalized (read
\* against the working directory) and its absolute form.
ResolveFile(raw, dir) ==
    LET n     == Normalize(raw)
        p1    == ProjectPath \o n
        p2    == dir \o n
        base  == Basename(n)
        src   == ProjectPath \o <<"src", base>>
        tests == ProjectPath \o <<"tests", base>>
    IN  IF IsFile(p1) /\ ~HasVendorComponent(p1) THEN {p1}
        ELSE IF IsFile(p2) /\ ~HasVendorComponent(n) THEN {p2}
        ELSE IF IsFile(p2) /\ ~HasVendorComponent(p2) THEN {p2}
        ELSE IF IsFile(src) THEN {src}
        ELSE IF IsFile(tests) THEN {tests}
        ELSE WalkFirst(base)

\* a directive: {file_path, search, replace}
Fix(raw, search, replace) == [file_path |-> raw, search |-> search, replace |-> replace]

\* The directives the oracle's replies are drawn from: one per tier and outcome.
Directives ==
    { \* exact substring
      Fix(Raw("", <<"src", "A.php">>), <<"x">>, <<"y">>),
      \* method boundary: the replacement repeats the modifier
      Fix(Raw("./", <<"src", "A.php">>), <<"fF", "lb", "z", "rb">>, <<"pub", "fF", "lb", "z", "rb">>),
      \* line block
      Fix(Raw("", <<"src", "A.php">>), <<"y", "sp", "nl", "z">>, <<"y", "nl", "x">>),
      \* no tier matches
      Fix(Raw("", <<"tests", "T.php">>), <<"q">>, <<"x", "rp", "sc">>),
      \* exact, the replacement brings a doubled closing sequence
      Fix(Raw("", <<"T.php">>), <<"x">>, <<"y", "rp", "sc", "rp">>),
      \* a file under vendor/, by its project path and by its name alone
      Fix(Raw("", <<"vendor", "lib", "V.php">>), <<"x">>, <<"y">>),
      Fix(Raw("", <<"V.php">>), <<"x">>, <<"y">>),
      Fix(Raw("/", <<"p", "vendor", "lib", "A.php">>), <<"y">>, <<"x">>),
      \* found by the walk only, and not found at all
      Fix(Raw("", <<"B.php">>), <<"x">>, <<"z">>),
      \* a file outside src/ and tests/, by its absolute path
      Fix(Raw("/", <<"p", "lib", "A.php">>), <<"x">>, <<"y">>),
      Fix(Raw("", <<"src", "Nope.php">>), <<"x">>, <<"y">>) }

(***************************************************************************)
(* State.                                                                  *)
(***************************************************************************)

VARIABLES
    fs,     \* content of each file
    bak,    \* the backup artifact <file>.bak of each file
    cwd,    \* the working directory
    af,     \* the apply_fix call in progress, or the last one
    calls,  \* apply_fix calls made so far
    pc,     \* where process_phpunit_errors is
    ctl,    \* its arguments and locals
    obs,    \* what a run has done so far: counters the code does not keep
    rp,     \* a test report on its way to the oracle: parsed, batched, sent
    fx,     \* a call of fix_php_syntax_errors on its own, and a second on its output
    tmp     \* the scratch file of run_phpunit_tests or check_php_syntax

NoBackup == [exists |-> FALSE, content |-> <<>>]

NoPath == <<>>

\* apply_fix before any call
AfIdle ==
    [pc      |-> "idle",    \* idle, check, prompt_force, prompt_manual, confirm,
                            \* open, write, returned
     fix     |-> Fix(Raw("", <<>>), <<>>, <<>>),
     file    |-> NoPath,    \* file_path, once resolved
     pre     |-> <<>>,      \* content, as read
     tier    |-> "none",    \* exact, method, line, none
     cand    |-> <<>>,      \* new_content
     pending |-> <<>>,      \* what the next write puts in the file
     how     |-> "",        \* why it is written: direct, repaired, restore, forced,
                            \* overwrite, overwrite_forced, manual_repair
     checks  |-> <<>>,      \* the check_php_syntax calls: content and verdict
     option  |-> "",        \* the operator's answer to the manual-fix menu
     input   |-> "",        \* the operator's last answer
     ret     |-> FALSE]

\* return value
AfReturn(a, value) == [a EXCEPT !.pc = "returned", !.ret = value]

\* with open(file_path, 'w') as f: f.write(text), then return value
AfWrite(a, text, how, value) ==
    [a EXCEPT !.pc = "open", !.pending = text, !.how = how, !.ret = value]

\* lines 547-620: resolve the file, read it, write the backup, find the tier
AfBegin(fix, file) ==
    IF file = NoPath THEN AfReturn([AfIdle EXCEPT !.fix = fix], FALSE)
    ELSE LET content == fs[file]
             tier    == TierOf(content, fix.search)
         IN  [AfIdle EXCEPT !.fix = fix, !.file = file, !.pre = content, !.tier = tier,
                            !.cand = Candidate(content, fix.search, fix.replace),
                            !.pc = IF tier = "none" THEN "prompt_manual" ELSE "check"]

\* mutant: the backup is opened for writing and never written
BackupAfter_Empty(file, content) ==
    IF file = NoPath THEN bak ELSE [bak EXCEPT ![file] = [exists |-> TRUE, content |-> <<>>]]

\* backup_path = f"{file_path}.bak", written with the content read
BackupAfter(file, content) ==
    IF file = NoPath THEN bak ELSE [bak EXCEPT ![file] = [exists |-> TRUE, content |-> content]]

\* the call itself; the caller owns the variables not named here
AF_Call(fix) ==
    \E file \in (IF ResolveFile(fix.file_path, cwd) = {} THEN {NoPath}
                 ELSE ResolveFile(fix.file_path, cwd)) :
        /\ af' = AfBegin(fix, file)
        /\ bak' = BackupAfter(file, IF file = NoPath THEN <<>> ELSE fs[file])
        /\ calls' = calls + 1
        /\ UNCHANGED <<fs, cwd, rp, fx, tmp>>  \* the caller sets pc, ctl, obs

\* check_php_syntax(file_path, text) was called and gave valid
Checked(a, text, valid) ==
    [a EXCEPT !.checks = Append(@, [content |-> text, valid |-> valid])]

\* the candidate passed check_php_syntax
AfValid(a) == AfWrite(a, a.cand, "direct", TRUE)

\* the repaired candidate passed check_php_syntax
AfRepaired(a, fixed) == AfWrite(a, fixed, "repaired", TRUE)

\* mutant: the candidate is written where the content read should be
AfRepairFailed_WritesCandidate(a) == AfWrite(a, a.cand, "restore", FALSE)

\* the repaired candidate failed it: the exact tier writes content back
\* ("Restoring from backup"), the other tiers return
AfRepairFailed(a) ==
    IF a.tier = "exact" THEN AfWrite(a, a.pre, "restore", FALSE) ELSE AfReturn(a, FALSE)

\* no repair rule fired: the exact tier asks the operator, the other tiers skip
AfNotRepaired(a) ==
    IF a.tier = "exact" THEN [a EXCEPT !.pc = "prompt_force"] ELSE AfReturn(a, FALSE)

\* lines 622-676, 714-747, 767-800: validate, repair, validate again
AF_Check ==
    /\ af.pc = "check"
    /\ \E v \in Verdicts :
          LET a == Checked(af, af.cand, v.valid)
              r == fix_php_syntax_errors(af.cand, v.msg)
          IN  IF v.valid THEN af' = AfValid(a)
              ELSE IF r.fixed
              THEN \E validAfterFix \in BOOLEAN :
                      af' = IF validAfterFix
                            THEN AfRepaired(Checked(a, r.content, TRUE), r.content)
                            ELSE AfRepairFailed(Checked(a, r.content, FALSE))
              ELSE af' = AfNotRepaired(a)
    /\ UNCHANGED <<fs, bak, cwd, calls, pc, ctl, obs, rp, fx, tmp>>

\* what input() gives: an answer, or EOFError / KeyboardInterrupt
ForceInputs == {"1", "2", "EOF"}

\* mutant: the candidate is applied whatever the answer, and without one
AfForceAnswer_Default(a, inp) == AfWrite([a EXCEPT !.input = inp], a.cand, "forced", TRUE)

\* lines 651-669: "1" applies the candidate despite its errors
AfForceAnswer(a, inp) ==
    IF inp = "1" THEN AfWrite([a EXCEPT !.input = inp], a.cand, "forced", TRUE)
    ELSE AfReturn([a EXCEPT !.input = inp], FALSE)

AF_PromptForce ==
    /\ af.pc = "prompt_force"
    /\ \E inp \in ForceInputs : af' = AfForceAnswer(af, inp)
    /\ UNCHANGED <<fs, bak, cwd, calls, pc, ctl, obs, rp, fx, tmp>>

\* the best-effort table of option 2, in order: <<pattern, replacement>>
ManualTable ==
    << <<DoubleClose, <<"rp", "sc">> >>,
       << <<"pub", "pub">>, <<"pub">> >>,
       << <<"prot", "pub">>, <<"prot">> >>,
       << <<"priv", "pub">>, <<"priv">> >>,
       << <<"pub", "prot">>, <<"prot">> >>,
       << <<"pub", "priv">>, <<"priv">> >> >>

\* the rows of the table whose pattern occurs in content
ManualRows(content) == {k \in 1..Len(ManualTable) : Contains(content, ManualTable[k][1])}

ManualFixed(content, k) == Replace(content, ManualTable[k][1], ManualTable[k][2])

RECURSIVE ManualChecked(_, _, _)
\* the checks of option 2 from row k on: every row whose pattern occurs is
\* checked, in order, until one passes (row; 0: none does)
ManualChecked(a, k, row) ==
    IF k > Len(ManualTable) \/ (row /= 0 /\ k > row) THEN a
    ELSE IF k \in ManualRows(a.pre)
    THEN ManualChecked(Checked(a, ManualFixed(a.pre, k), k = row), k + 1, row)
    ELSE ManualChecked(a, k + 1, row)

ManualInputs == {"1", "2", "3", "EOF"}

\* mutant: the file is replaced whatever the answer, and without one
AfManualAnswer_Default(a, inp, valid, row) ==
    AfWrite([a EXCEPT !.input = inp, !.option = inp], a.fix.replace, "overwrite", TRUE)

\* lines 824-881. Option 1 checks the replacement and asks again if it fails;
\* option 2 writes the first row's result that passes the check (row 0: none
\* passes); anything else, and no input at all, skips.
AfManualAnswer(a, inp, valid, row) ==
    LET b == [a EXCEPT !.input = inp, !.option = inp]
    IN  IF inp = "1"
        THEN IF valid THEN AfWrite(Checked(b, a.fix.replace, TRUE), a.fix.replace, "overwrite", TRUE)
             ELSE [Checked(b, a.fix.replace, FALSE) EXCEPT !.pc = "confirm"]
        ELSE IF inp = "2"
        THEN IF row = 0 THEN AfReturn(ManualChecked(b, 1, 0), FALSE)
             ELSE AfWrite(ManualChecked(b, 1, row), ManualFixed(a.pre, row), "manual_repair", TRUE)
        ELSE AfReturn(b, FALSE)

AF_PromptManual ==
    /\ af.pc = "prompt_manual"
    /\ \E inp \in ManualInputs, valid \in BOOLEAN, row \in ManualRows(af.pre) \cup {0} :
          af' = AfManualAnswer(af, inp, valid, row)
    /\ UNCHANGED <<fs, bak, cwd, calls, pc, ctl, obs, rp, fx, tmp>>

ConfirmInputs == {"y", "n", "EOF"}

\* lines 841-850: "Replace anyway? (y/n)"
AfConfirmAnswer(a, inp) ==
    IF inp = "y" THEN AfWrite([a EXCEPT !.input = inp], a.fix.replace, "overwrite_forced", TRUE)
    ELSE AfReturn([a EXCEPT !.input = inp], FALSE)

AF_Confirm ==
    /\ af.pc = "confirm"
    /\ \E inp \in ConfirmInputs : af' = AfConfirmAnswer(af, inp)
    /\ UNCHANGED <<fs, bak, cwd, calls, pc, ctl, obs, rp, fx, tmp>>

\* open(file_path, 'w') leaves the file empty
Truncated(content) == <<>>

\* open(file_path, 'w')
AF_Open ==
    /\ af.pc = "open"
    /\ fs' = [fs EXCEPT ![af.file] = Truncated(fs[af.file])]
    /\ af' = [af EXCEPT !.pc = "write"]
    /\ UNCHANGED <<bak, cwd, calls, pc, ctl, obs, rp, fx, tmp>>

\* f.write(...), close, return
AF_Write ==
    /\ af.pc = "write"
    /\ fs' = [fs EXCEPT ![af.file] = af.pending]
    /\ af' = [af EXCEPT !.pc = "returned"]
    /\ UNCHANGED <<bak, cwd, calls, pc, ctl, obs, rp, fx, tmp>>

(***************************************************************************)
(* process_phpunit_errors.                                                 *)
(***************************************************************************)

MaxIterations == 2

MaxBatches == 2

MaxFixes == 2

\* the directives of the oracle's replies: one that matches exactly, one that
\* matches in no tier, one whose file does not exist
OracleDirectives ==
    { Fix(Raw("", <<"src", "A.php">>), <<"x">>, <<"y">>),
      Fix(Raw("", <<"tests", "T.php">>), <<"q">>, <<"x", "rp", "sc">>),
      Fix(Raw("", <<"src", "Nope.php">>), <<"x">>, <<"y">>) }

MaxCalls == 2

\* the file names a reply's prose can mention
MentionedNames == {"A.php"}

\* the replies the oracle can give after n apply_fix calls: up to MaxFixes
\* directives in the format asked for, in order, and no more than MaxCalls
\* directives in a whole run; a reply without any may name files in its prose
Replies(n) ==
    {[fixes |-> f, names |-> {}] :
        f \in UNION {[1..k -> OracleDirectives] :
                        k \in 0..(IF MaxCalls - n < MaxFixes THEN MaxCalls - n ELSE MaxFixes)}}
    \cup {[fixes |-> <<>>, names |-> ns] : ns \in (SUBSET MentionedNames) \ {{}}}

RECURSIVE DirectivesFor(_)
\* a directive for each of the names
DirectivesFor(names) ==
    IF names = {} THEN <<>>
    ELSE LET n == CHOOSE n \in names : TRUE
         IN  <<Fix(Raw("", <<n>>), <<"x">>, <<"y">>)>> \o DirectivesFor(names \ {n})

\* mutant: a reply without directives is given one for each file it names
ResponseFixes_FromScan(reply) ==
    IF reply.fixes = <<>> THEN DirectivesFor(reply.names) ELSE reply.fixes

\* lines 329-340: response["fixes"], the matches of fix_pattern in the reply
ResponseFixes(reply) == reply.fixes

\* lines 1142-1157: potential_files, the names the scan of the reply reports
PotentialFiles(reply) == reply.names

\* lines 1044-1069: in auto mode the replace text is rewritten before apply_fix
PreRewrite(replace) ==
    ApplyTable([fixed |-> FALSE, content |-> ReplaceBeforeFn(replace, <<"pub", "pub">>, 1)], 1).content

\* the directive handed to apply_fix
Handed(fix, rewrite) ==
    IF rewrite THEN [fix EXCEPT !.replace = PreRewrite(fix.replace)] ELSE fix

CtlInit(max_iterations, auto_mode, has_key, has_phpunit) ==
    [max_iterations |-> max_iterations,
     auto_mode      |-> auto_mode,
     has_key        |-> has_key,     \* CLAUDE_API_KEY is set
     has_phpunit    |-> has_phpunit, \* vendor/bin/phpunit is a file of the project
     iteration      |-> 0,
     nbatches       |-> 0,           \* len(batches)
     batch_idx      |-> 0,
     fixes          |-> <<>>,        \* response["fixes"]
     fix_idx        |-> 1,           \* the next directive, 1-based
     rewrite        |-> FALSE,       \* the apply loop is the auto-mode one
     answer         |-> "",          \* user_input of this batch ("EOF": EOFError)
     applied        |-> 0]           \* len(applied_fixes)

ObsInit ==
    [test_runs     |-> 0,      \* run_phpunit_tests calls
     passes        |-> 0,      \* those that returned 0
     requests      |-> 0,      \* oracle requests sent in this iteration
     applies       |-> 0,      \* apply_fix calls in this iteration
     failed        |-> FALSE,  \* an apply_fix call of this iteration returned False
     batches_done  |-> 0,      \* batches of this iteration processed to their end
     ran_between   |-> FALSE,  \* PHPUnit was launched inside the loop over batches
     oracle        |-> "",     \* how the last send_to_claude of this iteration ended
     reported      |-> {},     \* the file names printed for a reply without directives
     error         |-> ""]     \* the exception that ended the run

Terminal == {"done_true", "done_false", "aborted"}

\* mutant: the loop is entered once more
LoopGoesOn_Inclusive(c) == c.iteration <= c.max_iterations

\* the while condition
LoopGoesOn(c) == c.iteration < c.max_iterations

\* mutant: the test is the other way round
Converged_Inverted(return_code) == return_code /= 0

\* return_code == 0 decides convergence
Converged(return_code) == return_code = 0

\* what run_phpunit_tests can give: the exit status and the number of batches
\* (none when the status is 0 or there is no report); "raise": the report's
\* line attribute is not a number and int() raises ValueError
TestOutcomes ==
    {[rc |-> 0, nbatches |-> 0, raise |-> FALSE]}
    \cup [rc : {1}, nbatches : 0..MaxBatches, raise : {FALSE}]
    \cup {[rc |-> 1, nbatches |-> 0, raise |-> TRUE]}

\* the end of the for loop over batches: iteration += 1
EndIteration(c) == [c EXCEPT !.iteration = c.iteration + 1]

\* the state after batch batch_idx: the next batch, or the next iteration
AfterBatch(c) ==
    IF c.batch_idx + 1 < c.nbatches
    THEN [c EXCEPT !.batch_idx = c.batch_idx + 1, !.fixes = <<>>, !.fix_idx = 1, !.applied = 0,
                    !.answer = ""]
    ELSE EndIteration([c EXCEPT !.fixes = <<>>, !.fix_idx = 1, !.applied = 0,
                    !.answer = ""])

PcAfterBatch(c) == IF c.batch_idx + 1 < c.nbatches THEN "batch" ELSE "iter"

\* lines 964-989: the loop head and the test run
PE_Iterate ==
    /\ pc = "iter"
    /\ IF ~LoopGoesOn(ctl)
       THEN /\ pc' = "done_false"
            /\ UNCHANGED <<ctl, obs>>
       ELSE \E t \in TestOutcomes :
               LET o == [obs EXCEPT !.test_runs = @ + 1,
                                    !.passes = @ + (IF t.rc = 0 THEN 1 ELSE 0),
                                    !.requests = 0, !.applies = 0, !.failed = FALSE,
                                    !.batches_done = 0, !.ran_between = FALSE,
                                    !.oracle = "", !.reported = {}]
               IN  IF t.raise
                   THEN pc' = "aborted" /\ ctl' = ctl /\ obs' = [o EXCEPT !.error = "ValueError"]
                   ELSE IF Converged(t.rc)
                   THEN pc' = "done_true" /\ ctl' = ctl /\ obs' = o
                   ELSE IF t.nbatches = 0
                   THEN pc' = "iter" /\ ctl' = EndIteration(ctl) /\ obs' = o
                   ELSE /\ pc' = "batch"
                        /\ ctl' = [ctl EXCEPT !.nbatches = t.nbatches, !.batch_idx = 0]
                        /\ obs' = o
    /\ UNCHANGED <<fs, bak, cwd, af, calls, rp, fx, tmp>>

\* what send_to_claude can meet once the key is there
OracleOutcomes == {"transport_error", "bad_json", "empty_content", "reply"}

\* mutant: the rest of the iteration is given up with the batch
SkipBatch_EndsIteration(o) ==
    /\ pc' = "iter"
    /\ ctl' = EndIteration([ctl EXCEPT !.fixes = <<>>, !.fix_idx = 1, !.applied = 0,
                    !.answer = ""])
    /\ obs' = o

\* a batch ends without any directive applied
SkipBatch(o) ==
    /\ pc' = PcAfterBatch(ctl)
    /\ ctl' = AfterBatch(ctl)
    /\ obs' = [o EXCEPT !.batches_done = @ + 1]

\* lines 188-244: with the key set, send_to_claude launches PHPUnit on tests/
\* before it sends the request, if it finds the executable under vendor/
LaunchedBySend(c) == c.has_key /\ c.has_phpunit

\* lines 1075-1078: run_phpunit_and_get_output after a batch that applied a fix
LaunchedAfterFixes(c) == c.applied > 0 /\ c.has_phpunit

\* lines 991-1038, 1089, 1137-1160: prepare the message, send it, read the
\* reply, which is one of replies
SendBatch(replies) ==
    /\ pc = "batch"
    /\ IF ~ctl.has_key
       THEN SkipBatch([obs EXCEPT !.oracle = "no_key", !.reported = {}])
       ELSE \E outcome \in OracleOutcomes :
               LET o == [obs EXCEPT !.requests = @ + 1, !.oracle = outcome,
                                    !.reported = {},
                                    !.ran_between = @ \/ LaunchedBySend(ctl)]
               IN  IF outcome \in {"transport_error", "bad_json"}
                   THEN SkipBatch(o)
                   ELSE IF outcome = "empty_content"
                   THEN pc' = "aborted" /\ ctl' = ctl /\ obs' = [o EXCEPT !.error = "IndexError"]
                   ELSE \E reply \in replies :
                           LET fixes == ResponseFixes(reply)
                               found == IF reply.fixes = <<>> THEN "no_directives" ELSE "reply"
                           IN  IF fixes = <<>>
                               THEN SkipBatch([o EXCEPT !.oracle = found,
                                                        !.reported = PotentialFiles(reply)])
                               ELSE /\ pc' = IF ctl.auto_mode THEN "apply" ELSE "ask"
                                    /\ ctl' = [ctl EXCEPT !.fixes = fixes, !.fix_idx = 1,
                                                          !.applied = 0, !.rewrite = ctl.auto_mode]
                                    /\ obs' = [o EXCEPT !.oracle = found]
    /\ UNCHANGED <<fs, bak, cwd, af, calls, rp, fx, tmp>>

\* the batch of a run whose oracle answers with Replies
PE_Batch == SendBatch(Replies(calls))

AskInputs == {"y", "n", "EOF"}

\* what the answer to "Would you like to apply these fixes?" leads to
AskApplies(inp) == inp \in {"y", "EOF"}

\* lines 1090-1136
PE_Ask ==
    /\ pc = "ask"
    /\ \E inp \in AskInputs :
          IF AskApplies(inp)
          THEN pc' = "apply" /\ ctl' = [ctl EXCEPT !.answer = inp] /\ obs' = obs
          ELSE SkipBatch(obs)
    /\ UNCHANGED <<fs, bak, cwd, af, calls, rp, fx, tmp>>

\* success = self.apply_fix(fix), for the next directive of the reply
PE_ApplyFix ==
    /\ pc = "apply"
    /\ ctl.fix_idx <= Len(ctl.fixes)
    /\ AF_Call(Handed(ctl.fixes[ctl.fix_idx], ctl.rewrite))
    /\ pc' = "in_fix"
    /\ obs' = [obs EXCEPT !.applies = @ + 1]
    /\ UNCHANGED ctl

\* apply_fix has returned: if success: applied_fixes.append(fix); on to the next
AfterFix(c, success) ==
    [c EXCEPT !.fix_idx = c.fix_idx + 1,
              !.applied = c.applied + (IF success THEN 1 ELSE 0)]

PE_FixReturned ==
    /\ pc = "in_fix"
    /\ af.pc = "returned"
    /\ pc' = "apply"
    /\ ctl' = AfterFix(ctl, af.ret)
    /\ obs' = [obs EXCEPT !.failed = @ \/ ~af.ret]
    /\ af' = AfIdle
    /\ UNCHANGED <<fs, bak, cwd, calls, rp, fx, tmp>>

\* the reply's directives are used up: the batch is over
PE_EndBatch ==
    /\ pc = "apply"
    /\ ctl.fix_idx > Len(ctl.fixes)
    /\ SkipBatch([obs EXCEPT !.ran_between = @ \/ LaunchedAfterFixes(ctl)])
    /\ UNCHANGED <<fs, bak, cwd, af, calls, rp, fx, tmp>>

(***************************************************************************)
(* The test report: parse_phpunit_xml, format_for_mcp, prepare_mcp_message *)
(* and the request send_to_claude builds.                                  *)
(*                                                                         *)
(* An element of the report is a record: its tag, its children, and for a  *)
(* testcase its attributes (line: "absent" or the attribute's text) and    *)
(* its child (kind: "pass" for none, "failure", "error") with the child's  *)
(* text as tokens: "w" a word, ".php" and ".ext" a file extension, ":" and *)
(* a number.                                                               *)
(***************************************************************************)

MaxCases == 2

MaxFailures == 7

MaxBatchSize == 3

Element(tag, kids) ==
    [tag |-> tag, kids |-> kids, name |-> 0, class |-> "", file |-> <<>>,
     line |-> "absent", kind |-> "pass", text |-> <<>>]

TestCase(name, file, line, kind, text) ==
    [tag |-> "testcase", kids |-> <<>>, name |-> name, class |-> "T", file |-> file,
     line |-> line, kind |-> kind, text |-> text]

NumberTokens == {"0", "7", "42"}

\* int(s) for the texts of the model; anything else raises ValueError
IntOf(s) == IF s = "0" THEN 0 ELSE IF s = "7" THEN 7 ELSE 42

RECURSIVE FindAllIn(_, _)
\* element.findall('.//tag'): the descendants with that tag, in document
\* order; the element itself is not among them
FindAllIn(kids, tag) ==
    IF kids = <<>> THEN <<>>
    ELSE (IF Head(kids).tag = tag THEN <<Head(kids)>> ELSE <<>>)
         \o FindAllIn(Head(kids).kids, tag)
         \o FindAllIn(Tail(kids), tag)

FindAll(element, tag) == FindAllIn(element.kids, tag)

\* re.search(r'\.php:(\d+)', message): the number of the first match, "" if none
SearchPhpLine(message) ==
    LET hits == {i \in 1..(Len(message) - 2) :
                    /\ message[i] = ".php"
                    /\ message[i + 1] = ":"
                    /\ message[i + 2] \in NumberTokens}
    IN  IF hits = {} THEN ""
        ELSE message[(CHOOSE i \in hits : \A j \in hits : i <= j) + 2]

\* lines 83-105: the PhpUnitError of a testcase that has a failure or an error
\* (raised: int() raised ValueError on the line attribute)
ErrorOfCase(testcase) ==
    LET attr    == IF testcase.line = "absent" THEN "0" ELSE testcase.line
        raised  == attr \notin NumberTokens
        line    == IF raised THEN 0 ELSE IntOf(attr)
        message == Strip(testcase.text)
        found   == IF line = 0 /\ message /= <<>> THEN SearchPhpLine(message) ELSE ""
    IN  [raised |-> raised,
         error  |-> [message    |-> message,
                     file       |-> testcase.file,
                     line       |-> IF found = "" THEN line ELSE IntOf(found),
                     test_name  |-> testcase.name,
                     error_type |-> testcase.kind,   \* the child's type attribute
                     class_name |-> testcase.class]]

RECURSIVE ErrorsOfCases(_)
\* the loop over the testcases of one testsuite
ErrorsOfCases(cases) ==
    IF cases = <<>> THEN [raised |-> FALSE, errors |-> <<>>]
    ELSE LET c == Head(cases)
         IN  IF c.kind = "pass" THEN ErrorsOfCases(Tail(cases))
             ELSE LET e    == ErrorOfCase(c)
                      rest == ErrorsOfCases(Tail(cases))
                  IN  IF e.raised THEN [raised |-> TRUE, errors |-> <<>>]
                      ELSE [raised |-> rest.raised,
                            errors |-> IF rest.raised THEN <<>> ELSE <<e.error>> \o rest.errors]

RECURSIVE ErrorsOfSuites(_)
\* the loop over root.findall('.//testsuite')
ErrorsOfSuites(suites) ==
    IF suites = <<>> THEN [raised |-> FALSE, errors |-> <<>>]
    ELSE LET here == ErrorsOfCases(FindAll(Head(suites), "testcase"))
             rest == ErrorsOfSuites(Tail(suites))
         IN  IF here.raised \/ rest.raised THEN [raised |-> TRUE, errors |-> <<>>]
             ELSE [raised |-> FALSE, errors |-> here.errors \o rest.errors]

\* parse_phpunit_xml(xml_content): the list of errors, or an exception raised
\* to the caller.  ET.fromstring raises ParseError on a text that is not well
\* formed, and that is caught.
parse_phpunit_xml(report) ==
    IF ~report.wellformed THEN [raised |-> FALSE, errors |-> <<>>]
    ELSE ErrorsOfSuites(FindAll(report.root, "testsuite"))

\* errors[start:end] of Python, with 0-based start and an end that may lie
\* beyond the list
PySlice(s, start, end) ==
    LET last == IF end < Len(s) THEN end ELSE Len(s)
    IN  IF start >= last THEN <<>> ELSE SubSeq(s, start + 1, last)

RECURSIVE GroupByFile_NewestFirst(_, _)
\* mutant: the group of a file met for the first time is put before the others
GroupByFile_NewestFirst(errors, acc) ==
    IF errors = <<>> THEN acc
    ELSE LET e    == Head(errors)
             hits == {i \in 1..Len(acc) : acc[i].file = e.file}
         IN  IF hits = {}
             THEN GroupByFile_NewestFirst(Tail(errors),
                                          <<[file |-> e.file, errors |-> <<e>>]>> \o acc)
             ELSE LET i == CHOOSE i \in hits : TRUE
                  IN  GroupByFile_NewestFirst(Tail(errors),
                                              [acc EXCEPT ![i].errors = Append(@, e)])

RECURSIVE GroupByFile(_, _)
\* lines 128-132: a dict keeps its keys in the order of their first insertion
GroupByFile(errors, acc) ==
    IF errors = <<>> THEN acc
    ELSE LET e    == Head(errors)
             hits == {i \in 1..Len(acc) : acc[i].file = e.file}
         IN  IF hits = {}
             THEN GroupByFile(Tail(errors), Append(acc, [file |-> e.file, errors |-> <<e>>]))
             ELSE LET i == CHOOSE i \in hits : TRUE
                  IN  GroupByFile(Tail(errors),
                                  [acc EXCEPT ![i].errors = Append(@, e)])

HasMore_Inclusive(end_idx, n) == end_idx <= n

\* line 140
HasMore(end_idx, n) == end_idx < n

\* format_for_mcp(errors, batch_index), for a formatter of max_errors_per_batch B
format_for_mcp(errors, batch_index, B) ==
    LET start_idx    == batch_index * B
        end_idx      == start_idx + B
        batch_errors == PySlice(errors, start_idx, end_idx)
    IN  [batch |-> [index        |-> batch_index,
                    total_errors |-> Len(errors),
                    batch_size   |-> Len(batch_errors),
                    has_more     |-> HasMore(end_idx, Len(errors))],
         errors_by_file |-> GroupByFile(batch_errors, <<>>)]

get_total_batches_Floor(total_errors, B) == total_errors \div B

\* get_total_batches(total_errors)
get_total_batches(total_errors, B) == (total_errors + B - 1) \div B

\* message.get(key, default)
Get(message, key, default) == IF key \in DOMAIN message THEN message[key] ELSE default

\* os.path.join(project_path, path); every path of the model that starts at
\* the root starts with the project's component
JoinProject(path) ==
    IF path /= <<>> /\ Head(path) = Head(ProjectPath) THEN path ELSE ProjectPath \o path

KeyFiles == << <<"src", "Calculator.php">>, <<"tests", "CalculatorTest.php">> >>

RECURSIVE ReadFiles(_, _, _)
\* lines 117-139: the contents of the files that exist, vendor files skipped
\* where skip is set, each file once
ReadFiles(paths, skip, acc) ==
    IF paths = <<>> THEN acc
    ELSE LET path == Head(paths)
             seen == \E i \in 1..Len(acc) : acc[i].file = path
         IN  IF seen \/ (skip /\ HasVendorComponent(path)) \/ ~IsFile(JoinProject(path))
             THEN ReadFiles(Tail(paths), skip, acc)
             ELSE ReadFiles(Tail(paths), skip,
                            Append(acc, [file |-> path, content |-> fs[JoinProject(path)]]))

\* mutant: the files of the batch are read wherever they are
prepare_mcp_message_ReadsAll(batch) ==
    LET keys == [i \in 1..Len(batch.errors_by_file) |-> batch.errors_by_file[i].file]
    IN  [type          |-> "mcp_phpunit_errors",
         batch_info    |-> batch.batch,
         errors        |-> batch.errors_by_file,
         file_contents |-> ReadFiles(KeyFiles, FALSE, ReadFiles(keys, FALSE, <<>>)),
         project_path  |-> ProjectPath]

\* prepare_mcp_message(batch)
prepare_mcp_message(batch) ==
    LET keys == [i \in 1..Len(batch.errors_by_file) |-> batch.errors_by_file[i].file]
    IN  [type          |-> "mcp_phpunit_errors",
         batch_info    |-> batch.batch,
         errors        |-> batch.errors_by_file,
         file_contents |-> ReadFiles(KeyFiles, FALSE, ReadFiles(keys, TRUE, <<>>)),
         project_path  |-> ProjectPath]

\* line 998: message["phpunit_output"] = phpunit_output
WithOutput(message) ==
    [k \in DOMAIN message \cup {"phpunit_output"} |->
        IF k = "phpunit_output" THEN "run_output" ELSE message[k]]

RECURSIVE ErrorDetails(_)
\* lines 181-186: one heading per file, one line per error
ErrorDetails(by_file) ==
    IF by_file = <<>> THEN <<>>
    ELSE <<[file |-> Head(by_file).file,
            lines |-> [i \in 1..Len(Head(by_file).errors) |->
                         [line    |-> Head(by_file).errors[i].line,
                          message |-> Head(by_file).errors[i].message]]]>>
         \o ErrorDetails(Tail(by_file))

\* lines 257-279: the parts of the request's text that come from the message
ClaudeRequest(message) ==
    [phpunit_output |-> Get(message, "phpunit_output", "rerun_output"),
     file_contents  |-> Get(message, "file_contents", <<>>),
     errors_by_file |-> Get(message, "errors_by_file", <<>>),
     error_details  |-> ErrorDetails(Get(message, "errors_by_file", <<>>))]

(***************************************************************************)
(* The reports and the failure lists the pipeline is run on.               *)
(***************************************************************************)

LineAttrs == {"absent", "0", "7", "abc"}

Texts == {<<>>, <<"w">>, <<"nl", "w", ".php", ":", "42", "nl">>, <<"w", ".ext", ":", "42">>}

\* the testcases a report is made of, before they are named
Cases ==
    {TestCase(0, TestT, "7", "pass", <<>>), TestCase(0, VendorV, "7", "error", <<"w">>)}
    \cup {TestCase(0, TestT, l, "failure", t) : l \in LineAttrs, t \in Texts}

\* the i-th testcase of a report is named i
CaseLists == UNION {{[i \in 1..n |-> [cs[i] EXCEPT !.name = i]] : cs \in [1..n -> Cases]} :
                       n \in 0..MaxCases}

Layouts == {"flat", "suites", "nested", "split", "mixed"}

\* the element tree of a report with these testcases
\*   flat:    <testsuite> cases </testsuite>
\*   suites:  <testsuites><testsuite> cases </testsuite></testsuites>
\*   nested:  <testsuites><testsuite><testsuite> cases </testsuite></testsuite></testsuites>
\*   split:   <testsuites><testsuite> first case </testsuite><testsuite> the others </testsuite></testsuites>
\*   mixed:   <testsuites><testsuite> first case <testsuite> the others </testsuite></testsuite></testsuites>
Tree(layout, cases) ==
    LET first  == IF cases = <<>> THEN <<>> ELSE <<Head(cases)>>
        others == IF cases = <<>> THEN <<>> ELSE Tail(cases)
    IN  CASE layout = "flat"   -> Element("testsuite", cases)
          [] layout = "suites" -> Element("testsuites", <<Element("testsuite", cases)>>)
          [] layout = "nested" ->
                Element("testsuites", <<Element("testsuite", <<Element("testsuite", cases)>>)>>)
          [] layout = "split"  ->
                Element("testsuites", <<Element("testsuite", first), Element("testsuite", others)>>)
          [] layout = "mixed"  ->
                Element("testsuites",
                        <<Element("testsuite", first \o <<Element("testsuite", others)>>)>>)

NoReport == [wellformed |-> FALSE, layout |-> "none", cases |-> <<>>, root |-> Element("none", <<>>)]

Reports ==
    {NoReport}
    \cup {[wellformed |-> TRUE, layout |-> l, cases |-> cs, root |-> Tree(l, cs)] :
             l \in Layouts, cs \in CaseLists}

\* a PhpUnitError as the formatter is handed one
ListedError(i, file) ==
    [message |-> <<"w">>, file |-> file, line |-> 7, test_name |-> i,
     error_type |-> "failure", class_name |-> "T"]

ErrorLists == UNION {{[i \in 1..n |-> ListedError(i, files[i])] :
                         files \in [1..n -> {TestT, VendorV}]} : n \in 0..MaxFailures}

NoMessage == [type |-> "none"]

NoRequest == [phpunit_output |-> "none"]

RpIdle ==
    [pc |-> "idle", report |-> NoReport, B |-> 1, errors |-> <<>>, raised |-> FALSE,
     total_batches |-> 0, batches |-> <<>>, sent |-> 0, message |-> NoMessage,
     request |-> NoRequest,
     rc |-> 0,        \* the exit status of the test run
     xml |-> FALSE,   \* the run left a report that is not empty
     exit |-> -1]     \* what main returned, -1 before it has

\* lines 84-88 of run_phpunit_tests: the report is parsed and the batches counted
RP_Parse ==
    /\ pc = "report"
    /\ rp.pc = "parse"
    /\ LET r == parse_phpunit_xml(rp.report)
       IN  rp' = IF r.raised
                 THEN [rp EXCEPT !.pc = "raised", !.raised = TRUE]
                 ELSE [rp EXCEPT !.pc = "format", !.errors = r.errors,
                                 !.total_batches = get_total_batches(Len(r.errors), rp.B)]
    /\ UNCHANGED <<fs, bak, cwd, af, calls, pc, ctl, obs, fx, tmp>>

\* lines 91-94: for batch_idx in range(total_batches): batches.append(...)
RP_Format ==
    /\ pc = "report"
    /\ rp.pc = "format"
    /\ rp' = IF Len(rp.batches) < rp.total_batches
             THEN [rp EXCEPT !.batches =
                        Append(@, format_for_mcp(rp.errors, Len(rp.batches), rp.B))]
             ELSE [rp EXCEPT !.pc = "prepare"]
    /\ UNCHANGED <<fs, bak, cwd, af, calls, pc, ctl, obs, fx, tmp>>

\* lines 991-998 of process_phpunit_errors: the message of the next batch
RP_Prepare ==
    /\ pc = "report"
    /\ rp.pc = "prepare"
    /\ rp' = IF rp.sent < Len(rp.batches)
             THEN [rp EXCEPT !.pc = "send",
                             !.message = WithOutput(prepare_mcp_message(rp.batches[rp.sent + 1]))]
             ELSE [rp EXCEPT !.pc = "done"]
    /\ UNCHANGED <<fs, bak, cwd, af, calls, pc, ctl, obs, fx, tmp>>

\* send_to_claude(message) up to the request it posts
RP_Request ==
    /\ pc = "report"
    /\ rp.pc = "send"
    /\ rp' = [rp EXCEPT !.pc = "prepare", !.sent = @ + 1,
                        !.request = ClaudeRequest(rp.message)]
    /\ UNCHANGED <<fs, bak, cwd, af, calls, pc, ctl, obs, fx, tmp>>

(***************************************************************************)
(* main with --dry-run.                                                    *)
(***************************************************************************)

\* the exit statuses of a test run: all passed, failures, errors
ReturnCodes == {0, 1, 2}

\* lines 91-94 of run_phpunit_tests: the batches of a failure list
AllBatches(errors, B) ==
    [j \in 1..get_total_batches(Len(errors), B) |-> format_for_mcp(errors, j - 1, B)]

\* mutant: a dry run always reports failure
DryExit_Always1(return_code) == 1

\* main.py lines 95-109: 0 after "All PHPUnit tests pass!", 1 at the end
DryExit(return_code) == IF return_code = 0 THEN 0 ELSE 1

\* main.py lines 86-90: client.run_phpunit_tests(...), as a whole
DR_RunTests ==
    /\ pc = "dry"
    /\ rp.pc = "dry_start"
    /\ obs' = [obs EXCEPT !.test_runs = @ + 1, !.passes = @ + (IF rp.rc = 0 THEN 1 ELSE 0)]
    /\ IF rp.rc = 0 \/ ~rp.xml
       THEN rp' = [rp EXCEPT !.pc = "dry_report"]
       ELSE LET r == parse_phpunit_xml(rp.report)
            IN  rp' = IF r.raised
                      THEN [rp EXCEPT !.pc = "raised", !.raised = TRUE]
                      ELSE [rp EXCEPT !.pc = "dry_report", !.errors = r.errors,
                                      !.total_batches = get_total_batches(Len(r.errors), rp.B),
                                      !.batches = AllBatches(r.errors, rp.B)]
    /\ UNCHANGED <<fs, bak, cwd, af, calls, pc, ctl, fx, tmp>>

\* main.py lines 92-109: the results are printed and main returns
DR_Return ==
    /\ pc = "dry"
    /\ rp.pc = "dry_report"
    /\ rp' = [rp EXCEPT !.pc = "dry_done", !.exit = DryExit(rp.rc)]
    /\ UNCHANGED <<fs, bak, cwd, af, calls, pc, ctl, obs, fx, tmp>>

(***************************************************************************)
(* fix_php_syntax_errors called on its own: once on a content and a        *)
(* message, then again on what it returned.                                *)
(***************************************************************************)

MaxModifiers == 3

\* one to MaxModifiers access modifiers in a row
ModifierRuns == UNION {[1..k -> Modifiers] : k \in 1..MaxModifiers}

\* the contents it is called on: a declaration behind a run of modifiers, on
\* the first line or the second, its body empty or with a doubled closing
\* sequence
RepairContents ==
    {head \o run \o tail :
        head \in {<<>>, <<"x", "nl">>},
        run  \in ModifierRuns,
        tail \in {<<"fF", "lb", "rb">>, <<"fF", "lb", "x", "rp", "sc", "rp", "rb">>}}

NoResult == [fixed |-> FALSE, content |-> <<>>]

FxIdle ==
    [pc      |-> "idle",   \* idle, start, called, again
     content |-> <<>>,
     msg     |-> [mm |-> FALSE, line |-> 0, unexp |-> FALSE, brace |-> FALSE],
     first   |-> NoResult, \* (is_fixed, fixed_content) of the call
     second  |-> NoResult] \* and of the call on fixed_content

\* is_fixed, fixed_content = fix_php_syntax_errors(content, error_message)
FX_Call ==
    /\ fx.pc = "start"
    /\ fx' = [fx EXCEPT !.pc = "called", !.first = fix_php_syntax_errors(fx.content, fx.msg)]
    /\ UNCHANGED <<fs, bak, cwd, af, calls, pc, ctl, obs, rp, tmp>>

\* the same call on what the first returned
FX_Again ==
    /\ fx.pc = "called"
    /\ fx' = [fx EXCEPT !.pc = "again",
                        !.second = fix_php_syntax_errors(fx.first.content, fx.msg)]
    /\ UNCHANGED <<fs, bak, cwd, af, calls, pc, ctl, obs, rp, tmp>>

(***************************************************************************)
(* The scratch files: the report file of run_phpunit_tests and the source  *)
(* file of check_php_syntax, from their creation to the finally clause.    *)
(***************************************************************************)

MaxScratchCalls == 5

\* how a call goes on once it has asked for its scratch file
ScratchPaths(fn) ==
    IF fn = "run_phpunit_tests"
    THEN {"create_failed",  \* NamedTemporaryFile raises
          "passed",         \* return_code == 0
          "no_xml",         \* the runner gave no report
          "parse_error",    \* parse_phpunit_xml raises
          "batches"}        \* the batches are returned
    ELSE {"create_failed",  \* NamedTemporaryFile raises: tmp_path is not bound
          "write_failed",   \* content.encode or tmp.write raises
          "run_failed",     \* subprocess.run raises: no php
          "invalid",        \* (False, error_output)
          "valid"}          \* (True, ...)

TmpIdle ==
    [pc     |-> "idle",  \* idle, created, raised, finally, returned
     fn     |-> "",
     path   |-> "",
     exists |-> FALSE,   \* the scratch file of this call exists
     left   |-> 0,       \* scratch files that calls left behind
     done   |-> 0]       \* calls that have returned or raised

\* the file exists once NamedTemporaryFile has returned
Created(path) == path /= "create_failed"

\* mutant: the file is removed on the way out of a normal return only
Released_OnReturn(t) ==
    IF t.exists /\ t.path \in {"passed", "batches", "valid", "invalid"} THEN FALSE ELSE t.exists

\* the finally clause: if os.path.exists(path): os.unlink(path); the file
\* exists afterwards or not
Released(t) == IF t.exists THEN FALSE ELSE t.exists

\* with tempfile.NamedTemporaryFile(..., delete=False) as tmp
T_Create ==
    /\ pc = "scratch"
    /\ tmp.pc \in {"idle", "returned"}
    /\ tmp.done < MaxScratchCalls
    /\ \E fn \in {"run_phpunit_tests", "check_php_syntax"} :
          \E path \in ScratchPaths(fn) :
             tmp' = [tmp EXCEPT !.pc = IF Created(path) THEN "created"
                                       ELSE IF fn = "run_phpunit_tests" THEN "raised"
                                       ELSE "finally",
                                !.fn = fn, !.path = path, !.exists = Created(path)]
    /\ UNCHANGED <<fs, bak, cwd, af, calls, pc, ctl, obs, rp, fx>>

\* the body of the try statement, to its return or its exception
T_Body ==
    /\ tmp.pc = "created"
    /\ tmp' = [tmp EXCEPT !.pc = "finally"]
    /\ UNCHANGED <<fs, bak, cwd, af, calls, pc, ctl, obs, rp, fx>>

\* the finally clause, then the return or the exception reaches the caller;
\* an exception of NamedTemporaryFile in run_phpunit_tests reaches him at once
T_Finally ==
    /\ tmp.pc \in {"finally", "raised"}
    /\ LET after == IF tmp.pc = "finally" THEN Released(tmp) ELSE tmp.exists
       IN  tmp' = [tmp EXCEPT !.pc = "returned", !.exists = after,
                              !.left = @ + (IF after THEN 1 ELSE 0),
                              !.done = @ + 1]
    /\ UNCHANGED <<fs, bak, cwd, af, calls, pc, ctl, obs, rp, fx>>

(***************************************************************************)
(* Specifications.                                                         *)
(***************************************************************************)

vars == <<fs, bak, cwd, af, calls, pc, ctl, obs, rp, fx, tmp>>

InitFiles ==
    /\ fs = [f \in Files |-> InitialContent(f)]
    /\ bak = [f \in Files |-> NoBackup]
    /\ af = AfIdle
    /\ calls = 0

\* nothing of the report pipeline runs in the specifications of apply_fix and
\* of the controller
\* fix_php_syntax_errors is not called on its own, no scratch file is in use
InitAside == fx = FxIdle /\ tmp = TmpIdle

InitIdle == InitFiles /\ rp = RpIdle /\ InitAside

\* the program: process_phpunit_errors, called once, from the project directory
Init ==
    /\ InitIdle
    /\ cwd = ProjectPath
    /\ pc = "iter"
    /\ \E m \in 0..MaxIterations, a \in BOOLEAN, k \in BOOLEAN, p \in BOOLEAN :
          ctl = CtlInit(m, a, k, p)
    /\ obs = ObsInit

Next ==
    \/ PE_Iterate
    \/ PE_Batch
    \/ PE_Ask
    \/ PE_ApplyFix
    \/ PE_FixReturned
    \/ PE_EndBatch
    \/ AF_Check
    \/ AF_PromptForce
    \/ AF_PromptManual
    \/ AF_Confirm
    \/ AF_Open
    \/ AF_Write

Spec == Init /\ [][Next]_vars

\* apply_fix called directly, MaxCalls times, each time with any directive
UnitCall ==
    /\ pc = "unit"
    /\ af.pc \in {"idle", "returned"}
    /\ calls < MaxCalls
    /\ \E fix \in Directives : AF_Call(fix)
    /\ UNCHANGED <<pc, ctl, obs>>

InitFix ==
    /\ InitIdle
    /\ cwd \in WorkingDirs
    /\ pc = "unit"
    /\ ctl = CtlInit(0, FALSE, FALSE, FALSE)
    /\ obs = ObsInit

NextFix ==
    \/ UnitCall
    \/ AF_Check
    \/ AF_PromptForce
    \/ AF_PromptManual
    \/ AF_Confirm
    \/ AF_Open
    \/ AF_Write

SpecFix == InitFix /\ [][NextFix]_vars

\* The contents of src/A.php the matching tiers are run on: a text that
\* repeats, two declarations of F with different modifiers, one declaration
\* with a nested brace pair, a two-line block that occurs twice, one plain
\* declaration, and two declarations of F without modifier.
TierContents ==
    { <<"x", "nl", "y", "nl", "x">>,
      <<"pub", "fF", "lb", "x", "rb", "nl", "priv", "fF", "lb", "y", "rb">>,
      <<"pub", "fF", "lb", "x", "lb", "y", "rb", "z", "rb">>,
      <<"x", "nl", "y", "nl", "z", "nl", "x", "nl", "y">>,
      <<"pub", "fF", "lb", "x", "rb", "nl", "y", "nl", "z">>,
      <<"fF", "lb", "x", "rb", "nl", "fF", "lb", "x", "rb">> }

\* The directives for src/A.php they are run with: a text, a declaration of F
\* that is nowhere in the file, two lines with trailing space, a declaration
\* over two lines, two lines as they are, and a text that is nowhere.
TierDirectives ==
    { Fix(Raw("", <<"src", "A.php">>), <<"x">>, <<"z">>),
      Fix(Raw("", <<"src", "A.php">>), <<"fF", "lb", "q", "rb">>, <<"fF", "lb", "z", "rb">>),
      Fix(Raw("", <<"src", "A.php">>), <<"x", "sp", "nl", "y">>, <<"z">>),
      Fix(Raw("", <<"src", "A.php">>), <<"fF", "sp", "nl", "rb">>, <<"fF", "lb", "z", "rb">>),
      Fix(Raw("", <<"src", "A.php">>), <<"x", "nl", "y">>, <<"z">>),
      Fix(Raw("", <<"src", "A.php">>), <<"q">>, <<"z">>) }

\* apply_fix called once, with any of these directives
TierCall ==
    /\ pc = "tier"
    /\ af.pc = "idle"
    /\ calls = 0
    /\ \E fix \in TierDirectives : AF_Call(fix)
    /\ UNCHANGED <<pc, ctl, obs>>

InitTier ==
    /\ \E content \in TierContents :
          fs = [f \in Files |-> IF f = SrcA THEN content ELSE InitialContent(f)]
    /\ bak = [f \in Files |-> NoBackup]
    /\ af = AfIdle
    /\ calls = 0
    /\ rp = RpIdle
    /\ cwd = ProjectPath
    /\ pc = "tier"
    /\ InitAside
    /\ ctl = CtlInit(0, FALSE, FALSE, FALSE)
    /\ obs = ObsInit

NextTier ==
    \/ TierCall
    \/ AF_Check
    \/ AF_PromptForce
    \/ AF_PromptManual
    \/ AF_Confirm
    \/ AF_Open
    \/ AF_Write

SpecTier == InitTier /\ [][NextTier]_vars

\* the report pipeline: a report is parsed, batched and sent batch by batch,
\* or the formatter is handed a failure list directly
InitReport ==
    /\ InitFiles
    /\ cwd = ProjectPath
    /\ pc = "report"
    /\ InitAside
    /\ ctl = CtlInit(0, FALSE, FALSE, FALSE)
    /\ obs = ObsInit
    /\ \E B \in 1..MaxBatchSize :
          \/ \E report \in Reports :
                rp = [RpIdle EXCEPT !.pc = "parse", !.report = report, !.B = B]
          \/ \E errors \in ErrorLists :
                rp = [RpIdle EXCEPT !.pc = "format", !.errors = errors, !.B = B,
                                    !.total_batches = get_total_batches(Len(errors), B)]

NextReport ==
    \/ RP_Parse
    \/ RP_Format
    \/ RP_Prepare
    \/ RP_Request

SpecReport == InitReport /\ [][NextReport]_vars

\* main with --dry-run: the test run ends with any status and leaves any report
InitDry ==
    /\ InitFiles
    /\ cwd = ProjectPath
    /\ pc = "dry"
    /\ InitAside
    /\ ctl = CtlInit(0, FALSE, FALSE, FALSE)
    /\ obs = ObsInit
    /\ \E B \in 1..MaxBatchSize, rc \in ReturnCodes :
          \/ rp = [RpIdle EXCEPT !.pc = "dry_start", !.B = B, !.rc = rc]
          \/ /\ rc /= 0
             /\ \E report \in Reports :
                   rp = [RpIdle EXCEPT !.pc = "dry_start", !.B = B, !.rc = rc,
                                       !.xml = TRUE, !.report = report]

NextDry ==
    \/ DR_RunTests
    \/ DR_Return

SpecDry == InitDry /\ [][NextDry]_vars

\* The directives of the replies the two modes are compared on: those of
\* OracleDirectives, and one whose replace text repeats a modifier before the
\* function keyword.
ModeDirectives ==
    OracleDirectives
    \cup { Fix(Raw("", <<"src", "A.php">>), <<"z">>, <<"pub", "pub", "fF", "lb", "rb">>) }

\* a reply holds one of them, no more than MaxCalls in a whole run
ModeReplies(n) ==
    IF n < MaxCalls THEN {[fixes |-> <<d>>, names |-> {}] : d \in ModeDirectives}
    ELSE {[fixes |-> <<>>, names |-> {}]}

PE_ModeBatch == SendBatch(ModeReplies(calls))

\* process_phpunit_errors with the key set, in either mode
InitModes ==
    /\ InitIdle
    /\ cwd = ProjectPath
    /\ pc = "iter"
    /\ \E m \in 1..MaxIterations, a \in BOOLEAN, p \in BOOLEAN :
          ctl = CtlInit(m, a, TRUE, p)
    /\ obs = ObsInit

NextModes ==
    \/ PE_Iterate
    \/ PE_ModeBatch
    \/ PE_Ask
    \/ PE_ApplyFix
    \/ PE_FixReturned
    \/ PE_EndBatch
    \/ AF_Check
    \/ AF_PromptForce
    \/ AF_PromptManual
    \/ AF_Confirm
    \/ AF_Open
    \/ AF_Write

SpecModes == InitModes /\ [][NextModes]_vars

\* fix_php_syntax_errors on any of the contents, with any message
InitRepair ==
    /\ InitFiles
    /\ rp = RpIdle
    /\ tmp = TmpIdle
    /\ cwd = ProjectPath
    /\ pc = "repair"
    /\ ctl = CtlInit(0, FALSE, FALSE, FALSE)
    /\ obs = ObsInit
    /\ \E content \in RepairContents, msg \in Messages :
          fx = [FxIdle EXCEPT !.pc = "start", !.content = content, !.msg = msg]

NextRepair ==
    \/ FX_Call
    \/ FX_Again

SpecRepair == InitRepair /\ [][NextRepair]_vars

\* calls of run_phpunit_tests and check_php_syntax, one after the other
InitScratch ==
    /\ InitFiles
    /\ rp = RpIdle
    /\ fx = FxIdle
    /\ tmp = TmpIdle
    /\ cwd = ProjectPath
    /\ pc = "scratch"
    /\ ctl = CtlInit(0, FALSE, FALSE, FALSE)
    /\ obs = ObsInit

NextScratch ==
    \/ T_Create
    \/ T_Body
    \/ T_Finally

SpecScratch == InitScratch /\ [][NextScratch]_vars

\* The program with any max_iterations, zero and below included.  It is one
\* sequential process and every external call returns: a step that can be
\* taken is taken.
InitLive ==
    /\ InitIdle
    /\ cwd = ProjectPath
    /\ pc = "iter"
    /\ \E m \in (-1)..MaxIterations, a \in BOOLEAN, k \in BOOLEAN, p \in BOOLEAN :
          ctl = CtlInit(m, a, k, p)
    /\ obs = ObsInit

SpecLive == InitLive /\ [][Next]_vars /\ WF_vars(Next)

(***************************************************************************)
(* The patch engine's claims, checked under SpecFix.                       *)
(***************************************************************************)

\* apply_fix has returned from a call that resolved a file
Returned == af.pc = "returned" /\ af.file /= NoPath

\* the last verdict check_php_syntax gave on text in this call ("none": not checked)
LastVerdict(text) ==
    LET hits == {i \in 1..Len(af.checks) : af.checks[i].content = text}
    IN  IF hits = {} THEN "none"
        ELSE IF af.checks[CHOOSE i \in hits : \A j \in hits : j <= i].valid THEN "valid"
        ELSE "invalid"

\* some check of this call passed
SomeCheckPassed == \E i \in 1..Len(af.checks) : af.checks[i].valid

\* the operator answered "1" to "Apply the fix anyway", or "y" to "Replace anyway?"
OperatorForced ==
    \/ af.tier /= "none" /\ af.input = "1"
    \/ af.tier = "none" /\ af.option = "1" /\ af.input = "y"

\* C1: during apply_fix the target file holds, at every point, either the
\* content it had before the call or the complete content being written;
\* never something else in between.  Stated for the targets outside vendor/.
C1_NoPartialContent ==
    (af.file /= NoPath /\ ~Protected(af.file)) =>
        \/ fs[af.file] = af.pre
        \/ af.how /= "" /\ fs[af.file] = af.pending

\* C2: in the exact, method and line tiers, when the candidate fails the
\* syntax check, no repaired content passes it and the operator does not
\* force the commit, apply_fix returns False and the file is as before.
C2_RegressionLeavesFile ==
    (/\ Returned
     /\ af.tier /= "none"
     /\ af.checks /= <<>>
     /\ ~SomeCheckPassed
     /\ ~OperatorForced)
    => (af.ret = FALSE /\ fs[af.file] = af.pre)

\* C2's case: the method tier, the candidate and its repair both failed
C2_Witness ==
    /\ Returned
    /\ af.tier = "method"
    /\ Len(af.checks) = 2
    /\ ~SomeCheckPassed
    /\ af.ret = FALSE

C4_ProtectedNeverWritten ==
    /\ af.file /= NoPath => ~Protected(af.file)
    /\ \A f \in Files : Protected(f) => fs[f] = InitialContent(f) /\ ~bak[f].exists

\* C5: content that apply_fix leaves in the file in place of the old content
\* passed the syntax check, or failed it and the operator chose to apply it
\* anyway; without an answer from the operator nothing invalid is written.
C5_InvalidOnlyIfForced ==
    (Returned /\ fs[af.file] /= af.pre) =>
        \/ LastVerdict(fs[af.file]) = "valid"
        \/ LastVerdict(fs[af.file]) = "invalid" /\ OperatorForced

\* C5's case: the candidate failed, no rule repaired it, no input was to be had
C5_Witness ==
    /\ Returned
    /\ af.tier = "exact"
    /\ LastVerdict(af.cand) = "invalid"
    /\ af.input = "EOF"
    /\ fs[af.file] = af.pre

\* C6: after a call that returned True, <file>.bak holds the content the file
\* had before the call; after an exact match whose candidate passed the
\* check, the file holds that content with search replaced by replace.
C6_BackupIsPreEdit ==
    (Returned /\ af.ret = TRUE) =>
        /\ bak[af.file] = [exists |-> TRUE, content |-> af.pre]
        /\ (af.tier = "exact" /\ af.how = "direct") =>
               fs[af.file] = Replace(af.pre, af.fix.search, af.fix.replace)

\* C6's case: an exact-match commit to a file that an earlier call had edited
C6_Witness ==
    /\ Returned
    /\ af.ret = TRUE
    /\ af.tier = "exact"
    /\ af.how = "direct"
    /\ af.pre /= InitialContent(af.file)
    /\ fs[af.file] /= af.pre

(***************************************************************************)
(* The iteration controller's claims, checked under Spec.                  *)
(***************************************************************************)

\* C7: when every test run reports failure, process_phpunit_errors returns
\* False after exactly max_iterations calls of run_phpunit_tests, whatever
\* the oracle answers and whether or not fixes are applied.
C7_ExhaustedAfterMaxRuns ==
    (pc \in Terminal /\ obs.passes = 0 /\ obs.error /= "ValueError") =>
        (pc = "done_false" /\ obs.test_runs = ctl.max_iterations)

\* C8: process_phpunit_errors returns True at the first call of
\* run_phpunit_tests that reports success, having sent no oracle request and
\* applied no fix in that iteration; it never returns True without such a run,
\* and never goes on after one.
C8_ConvergedAtFirstPass ==
    /\ pc = "done_true" =>
          /\ obs.passes = 1
          /\ obs.test_runs = ctl.iteration + 1
          /\ obs.requests = 0
          /\ obs.applies = 0
    /\ obs.passes >= 1 => pc = "done_true"

\* C8's case: the second test run passes, after an iteration that applied a fix
C8_Witness ==
    /\ pc = "done_true"
    /\ obs.test_runs = 2
    /\ calls > 0

\* C9: once an apply_fix call of an iteration has failed, the iteration still
\* goes to its end: when it is over, or the run is, every batch of it has been
\* processed with every directive of its reply applied.
C9_FailureDoesNotStop ==
    (obs.failed /\ pc \in Terminal \cup {"iter"}) => obs.batches_done = ctl.nbatches

\* C10: process_phpunit_errors ends by returning True or False, never by an
\* exception that propagates out of it.
C10_NeverAborts == pc /= "aborted"

\* C11: within an iteration PHPUnit is not launched between the start of the
\* first batch and the end of the last one.
C11_NoRunBetweenBatches == ~obs.ran_between

\* C12: a step sends at most one oracle request, and only as the first request
\* of a batch; when the request fails in transport it is not sent again, no
\* directive is applied, and the next batch of the same iteration is next (or
\* the end of the iteration, after the last batch).
C12_OneRequestNoRetry ==
    [][/\ (obs'.requests = obs.requests + 1) =>
              (pc = "batch" /\ obs.requests <= obs.batches_done)
       /\ (pc = "batch" /\ obs'.oracle = "transport_error") =>
              /\ obs'.requests = obs.requests + 1
              /\ calls' = calls /\ fs' = fs /\ bak' = bak /\ af' = af
              /\ obs'.applies = obs.applies
              /\ obs'.batches_done = obs.batches_done + 1
              /\ pc' = IF ctl.batch_idx + 1 < ctl.nbatches THEN "batch" ELSE "iter"
              /\ pc' = "batch" =>
                    (ctl'.batch_idx = ctl.batch_idx + 1 /\ ctl'.iteration = ctl.iteration)
      ]_vars

\* C12's case: the request of the first of two batches failed in transport
C12_Witness ==
    /\ obs.oracle = "transport_error"
    /\ pc = "batch"
    /\ obs.batches_done = 1
    /\ obs.requests = 1

\* a replace text brought one of the defects the repair rules know into the
\* candidate: two access modifiers in a row, or a doubled closing sequence
KnownDefect(text) == Contains(text, DoubleClose) \/ FindModifierPair(text, 1) /= 0

\* C18: when the replace text brings a known defect into the candidate and the
\* candidate fails the syntax check, apply_fix repairs it, writes the repaired
\* content and returns True, and what it wrote passed the syntax check.
\* Stated for the calls in which no repaired content failed the check.
C18_KnownDefectRepaired ==
    (/\ Returned
     /\ af.tier /= "none"
     /\ KnownDefect(af.cand) /\ ~KnownDefect(af.pre)
     /\ af.checks /= <<>>
     /\ ~af.checks[1].valid
     /\ \A i \in 2..Len(af.checks) : af.checks[i].valid)
    => (/\ af.ret = TRUE
        /\ af.how = "repaired"
        /\ fs[af.file] /= af.cand
        /\ LastVerdict(fs[af.file]) = "valid")

\* C19: with auto_mode set, process_phpunit_errors is never at a point where
\* it waits for an answer of the operator, in apply_fix or outside it.
C19_NoPromptUnattended ==
    ctl.auto_mode =>
        /\ pc /= "ask"
        /\ af.pc \notin {"prompt_force", "prompt_manual", "confirm"}

\* the records a batch carries, file by file
RECURSIVE Records(_)
Records(by_file) ==
    IF by_file = <<>> THEN <<>> ELSE Head(by_file).errors \o Records(Tail(by_file))

\* how many times r occurs in s
Count(s, r) == Cardinality({i \in 1..Len(s) : s[i] = r})

\* the least k with k * b >= n
CeilDiv(n, b) == CHOOSE k \in 0..n : k * b >= n /\ \A j \in 0..(k - 1) : j * b < n

\* the part of the list that falls to batch j (from 0) when each takes b records
Share(errors, j, b) ==
    [i \in 1..(IF (j + 1) * b <= Len(errors) THEN b ELSE Len(errors) - j * b) |->
        errors[j * b + i]]

\* every batch has been built
Batched == rp.pc \in {"prepare", "send", "done"}

IsShare(batch, share) ==
    LET recs == Records(batch.errors_by_file)
    IN  /\ Len(recs) = Len(share)
        /\ \A i \in 1..Len(share) : Count(recs, share[i]) = Count(share, share[i])
        /\ \A g \in 1..Len(batch.errors_by_file) :
              batch.errors_by_file[g].errors =
                  SelectSeq(share, LAMBDA e : e.file = batch.errors_by_file[g].file)

\* C13: the batches of a failure list of N records and a batch size B number
\* ceil(N/B), none holds more than B records, and batch j holds exactly the
\* records j*B+1 .. j*B+B of the list (as many of them as there are): every
\* record is in one batch, none is left out, none is in two.
C13_BatchesPartition ==
    Batched =>
        /\ Len(rp.batches) = CeilDiv(Len(rp.errors), rp.B)
        /\ \A j \in 1..Len(rp.batches) :
              /\ Len(Records(rp.batches[j].errors_by_file)) <= rp.B
              /\ (j - 1) * rp.B < Len(rp.errors)
              /\ IsShare(rp.batches[j], Share(rp.errors, j - 1, rp.B))

\* five records in batches of two, a batch with records of two files
C13_Witness ==
    /\ rp.pc = "done"
    /\ Len(rp.errors) = 5
    /\ rp.B = 2
    /\ Len(rp.batches) = 3
    /\ Len(rp.batches[1].errors_by_file) = 2

\* C14: has_more is true for every batch but the last and false for the last,
\* and batch_size is the number of records the batch carries.
C14_HasMoreAndSize ==
    (Batched /\ Len(rp.errors) >= 1) =>
        \A j \in 1..Len(rp.batches) :
           /\ rp.batches[j].batch.has_more = (j < Len(rp.batches))
           /\ rp.batches[j].batch.batch_size = Len(Records(rp.batches[j].errors_by_file))

\* seven records in batches of three: sizes 3, 3, 1 and has_more true, true, false
C14_Witness ==
    /\ Batched
    /\ Len(rp.errors) = 7
    /\ rp.B = 3
    /\ [j \in 1..Len(rp.batches) |-> rp.batches[j].batch.batch_size] = <<3, 3, 1>>
    /\ [j \in 1..Len(rp.batches) |-> rp.batches[j].batch.has_more] = <<TRUE, TRUE, FALSE>>

\* the report has been handed to parse_phpunit_xml and the call is over
Parsed == rp.report.wellformed /\ rp.pc \notin {"parse", "raised"}

\* the testcases of the report that have a failure or an error child, in
\* document order
FailingCases == SelectSeq(rp.report.cases, LAMBDA c : c.kind /= "pass")

\* C15: parse_phpunit_xml never raises to its caller; a report it cannot
\* read, a non-numeric line attribute included, gives the empty list.
C15_ParseNeverRaises ==
    /\ ~rp.raised
    /\ (rp.pc \notin {"idle", "parse"} /\ rp.report /= NoReport
        /\ (~rp.report.wellformed
            \/ \E i \in 1..Len(FailingCases) :
                  FailingCases[i].line \notin NumberTokens \cup {"absent"}))
       => rp.errors = <<>>

\* the message has a <path>:<number> token, whatever the extension of the path
HasLineToken(text) ==
    \E i \in 1..(Len(text) - 2) :
       text[i] \in {".php", ".ext"} /\ text[i + 1] = ":" /\ text[i + 2] \in NumberTokens

\* the number of the message's <path>:<number> token
LineToken(text) ==
    IntOf(text[(CHOOSE i \in 1..(Len(text) - 2) :
                   text[i] \in {".php", ".ext"} /\ text[i + 1] = ":"
                   /\ text[i + 2] \in NumberTokens) + 2])

\* C16: a failing case with no line attribute, or with line 0, gets the number
\* of the <path>:<number> token of its message, for any extension of the
\* path, and keeps line 0 when its message has no such token.
C16_LineFromMessage ==
    Parsed =>
        \A i \in 1..Len(rp.errors), k \in 1..Len(rp.report.cases) :
           LET e == rp.errors[i]
               c == rp.report.cases[k]
           IN  (c.name = e.test_name /\ c.line \in {"absent", "0"}) =>
                   e.line = IF HasLineToken(c.text) THEN LineToken(c.text) ELSE 0

\* C17: a well-formed report gives one record for each testcase that has a
\* failure or an error child, none for the others, in document order, however
\* its suites are nested.
C17_OneRecordPerFailingCase ==
    Parsed =>
        /\ Len(rp.errors) = Len(FailingCases)
        /\ \A i \in 1..Len(rp.errors) : rp.errors[i].test_name = FailingCases[i].name

\* C20: the request built for a batch carries the failure records of that
\* batch, in its errors section and in its details; a batch that has records
\* gives a request whose failure context is not empty.
C20_RequestCarriesFailures ==
    (rp.pc = "prepare" /\ rp.sent >= 1) =>
        LET batch == rp.batches[rp.sent]
            recs  == Records(batch.errors_by_file)
            sent  == Records(rp.request.errors_by_file)
        IN  /\ \A i \in 1..Len(recs) : Count(sent, recs[i]) = Count(recs, recs[i])
            /\ \A g \in 1..Len(batch.errors_by_file) :
                  \E d \in 1..Len(rp.request.error_details) :
                     /\ rp.request.error_details[d].file = batch.errors_by_file[g].file
                     /\ Len(rp.request.error_details[d].lines)
                            = Len(batch.errors_by_file[g].errors)
            /\ recs /= <<>> => rp.request.errors_by_file /= <<>>

\* C21: the step that reads a reply without directives writes no file and no
\* backup and calls apply_fix for nothing: the names its scan finds are
\* reported, and the batch is over.
C21_NoDirectivesNoWrite ==
    [][(pc = "batch" /\ obs'.oracle = "no_directives") =>
          /\ fs' = fs /\ bak' = bak /\ af' = af /\ calls' = calls
          /\ pc' \notin {"apply", "ask", "in_fix"}
          /\ ctl'.fixes = <<>>
          /\ obs'.applies = obs.applies
          /\ obs'.batches_done = obs.batches_done + 1]_vars

\* a reply without directives named a file, and the batch ended there
C21_Witness ==
    /\ obs.oracle = "no_directives"
    /\ obs.reported = {"A.php"}
    /\ obs.batches_done >= 1
    /\ obs.applies = 0
    /\ af = AfIdle

\* no apply_fix call has been made and every file and backup is as it was
Untouched ==
    /\ calls = 0
    /\ af = AfIdle
    /\ fs = [f \in Files |-> InitialContent(f)]
    /\ bak = [f \in Files |-> NoBackup]

\* C22: without the credential no request is sent and no file is modified
\* in the whole run, and the run of failing tests ends by returning False.
C22_MissingKeyReturnsFalse ==
    ~ctl.has_key =>
        /\ obs.requests = 0
        /\ obs.oracle \in {"", "no_key"}
        /\ Untouched
        /\ (pc \in Terminal /\ obs.passes = 0) => pc = "done_false"

\* the files a message carries the contents of
Attached(message) ==
    {message.file_contents[i].file : i \in 1..Len(Get(message, "file_contents", <<>>))}

\* C23: no file attached to a message lies under a vendor directory, as it
\* is named in the batch or as it is opened under the project path.
C23_NoVendorContents ==
    \A f \in Attached(rp.message) : ~Protected(f) /\ ~Protected(JoinProject(f))

\* a batch with failures in a vendor file and in a test file: the message
\* carries the test file's content alone
C23_Witness ==
    /\ rp.pc = "send"
    /\ \E g \in 1..Len(rp.message.errors) : rp.message.errors[g].file = VendorV
    /\ Attached(rp.message) = {TestT}

\* main has returned from its dry run
DryDone == rp.pc = "dry_done"

\* the dry run ran the tests once, sent nothing and wrote nothing
DryFrame ==
    /\ obs.test_runs = 1
    /\ obs.requests = 0
    /\ obs.applies = 0
    /\ Untouched

Matched == af.pc /= "idle" /\ af.file /= NoPath

\* the positions where t occurs in s
Occurrences(s, t) == {i \in 1..Len(s) : OccursAt(s, t, i)}

\* s with the n tokens from position i replaced by new
Splice(s, i, n, new) == SubSeq(s, 1, i - 1) \o new \o SubSeq(s, i + n, Len(s))

\* the declarations of fn in content
Declarations(content, fn) == {i \in 1..Len(content) : content[i] = fn}

\* C25: when the file declares the extracted identifier more than once, the
\* method-boundary tier replaces nothing: the directive is matched by the
\* line-block tier or by no tier.
C25_AmbiguousMethodSkipped ==
    (/\ Matched
     /\ ~Contains(af.pre, af.fix.search)
     /\ ExtractFunctionName(af.fix.search) /= ""
     /\ Cardinality(Declarations(af.pre, ExtractFunctionName(af.fix.search))) > 1)
    => af.tier /= "method"

RECURSIVE ClosingBrace(_, _, _)
\* the position of the brace that closes the one opened before position i,
\* depth braces being open at i; 0 if there is none
ClosingBrace(content, i, depth) ==
    IF i > Len(content) THEN 0
    ELSE IF content[i] = "lb" THEN ClosingBrace(content, i + 1, depth + 1)
    ELSE IF content[i] = "rb"
    THEN (IF depth = 1 THEN i ELSE ClosingBrace(content, i + 1, depth - 1))
    ELSE ClosingBrace(content, i + 1, depth)

\* C26: with one declaration of the extracted identifier, the method tier
\* replaces the method from its function keyword through the brace that
\* closes its body, nested brace pairs included; nothing of the old body is
\* left in the candidate.
C26_WholeMethodReplaced ==
    (/\ Matched
     /\ af.tier = "method"
     /\ Cardinality(Declarations(af.pre, ExtractFunctionName(af.fix.search))) = 1)
    => LET fn    == ExtractFunctionName(af.fix.search)
           start == CHOOSE i \in Declarations(af.pre, fn) : TRUE
           open  == FindFrom(af.pre, <<"lb">>, start)
           close == ClosingBrace(af.pre, open + 1, 1)
       IN  af.cand = Splice(af.pre, start, close - start + 1, af.fix.replace)

\* C27: when the search text occurs more than once, the exact tier replaces
\* its first occurrence and nothing else.
C27_FirstOccurrenceOnly ==
    (/\ Matched
     /\ af.tier = "exact"
     /\ Cardinality(Occurrences(af.pre, af.fix.search)) > 1)
    => LET first == CHOOSE i \in Occurrences(af.pre, af.fix.search) :
                       \A j \in Occurrences(af.pre, af.fix.search) : i <= j
       IN  af.cand = Splice(af.pre, first, Len(af.fix.search), af.fix.replace)

RECURSIVE LineStart(_, _)
\* the position in the joined lines where line i starts
LineStart(lines, i) ==
    IF i = 1 THEN 1 ELSE LineStart(lines, i - 1) + Len(lines[i - 1]) + 1

\* the windows of k file lines whose first and last line contain the first
\* and last search line, all trimmed
AcceptedWindows(content, search) ==
    LET sl == SplitLines(Strip(search))
        cl == SplitLines(Strip(content))
        k  == Len(sl)
    IN  {i \in 1..(Len(cl) - k + 1) :
            /\ Contains(Strip(cl[i]), Strip(sl[1]))
            /\ Contains(Strip(cl[i + k - 1]), Strip(sl[k]))}

\* C28: the line-block tier takes the first accepted window of k lines and
\* replaces exactly that window: every line outside it, an identical block
\* elsewhere included, is in the candidate as it was.
C28_WindowOnlyReplaced ==
    (Matched /\ af.tier = "line")
    => LET cl     == SplitLines(Strip(af.pre))
           k      == Len(SplitLines(Strip(af.fix.search)))
           w      == AcceptedWindows(af.pre, af.fix.search)
           i      == CHOOSE a \in w : \A c \in w : a <= c
           lead   == Len(af.pre) - Len(LStrip(af.pre))
           start  == lead + LineStart(cl, i)
           length == LineStart(cl, i + k - 1) + Len(cl[i + k - 1]) - LineStart(cl, i)
       IN  /\ w /= {}
           /\ af.cand = Splice(af.pre, start, length, af.fix.replace)

\* the contents the candidate of this call can be repaired to
Repairs == {fix_php_syntax_errors(af.cand, m).content : m \in Messages}

\* C29: the tiers are tried in the order exact, method, line, and the first
\* that matches is the only one used: a tier is used only if no tier before
\* it matched, and what is validated and written in the call is the
\* candidate of that one tier, or its repair.
C29_TierOrder ==
    Matched =>
        /\ af.tier = "exact" <=> Contains(af.pre, af.fix.search)
        /\ af.tier = "method" <=>
               ~Contains(af.pre, af.fix.search) /\ MethodFound(af.pre, af.fix.search)
        /\ af.tier = "line" <=>
               /\ ~Contains(af.pre, af.fix.search)
               /\ ~MethodFound(af.pre, af.fix.search)
               /\ Len(SplitLines(Strip(af.fix.search))) > 1
               /\ AcceptedWindows(af.pre, af.fix.search) /= {}
        /\ af.tier /= "none" =>
               /\ Len(af.checks) <= 2
               /\ \A i \in 1..Len(af.checks) : af.checks[i].content \in {af.cand} \cup Repairs
               /\ af.pending \in {<<>>, af.pre, af.cand} \cup Repairs
               /\ fs[af.file] \in {af.pre, Truncated(af.pre), af.cand} \cup Repairs

\* the search text is in the file verbatim and is also a line block of it:
\* the candidate of the exact tier was validated and written
C29_Witness ==
    /\ Returned
    /\ af.ret
    /\ af.tier = "exact"
    /\ AcceptedWindows(af.pre, af.fix.search) /= {}
    /\ Len(SplitLines(Strip(af.fix.search))) > 1
    /\ af.checks = <<[content |-> af.cand, valid |-> TRUE]>>
    /\ fs[af.file] = af.cand

\* the directive's path, read against the project or from the root, names a
\* file that exists under a vendor directory
NamesProtectedFile(raw) ==
    \E f \in Files : Protected(f) /\ f \in {ProjectPath \o raw.comps, raw.comps}

\* C30: a directive whose path names an existing file under vendor/ is
\* skipped: apply_fix settles on no file, returns False and writes nothing,
\* and does not turn to a file of the same name elsewhere in the project.
\* Stated for the tool started in the project directory.
C30_ProtectedTargetSkipped ==
    (cwd = ProjectPath /\ af.pc /= "idle" /\ NamesProtectedFile(af.fix.file_path))
    => /\ af.file = NoPath
       /\ af.pc = "returned" /\ ~af.ret
       /\ calls = 1 =>
             /\ fs = [f \in Files |-> InitialContent(f)]
             /\ bak = [f \in Files |-> NoBackup]

\* apply_fix has returned from a call that resolved a file, matched no tier
\* or was skipped by the operator, and wrote nothing
Unapplied == Returned /\ ~af.ret /\ af.how = ""

\* C31: <file>.bak is written only as part of committing an edit.  After a
\* call that resolved the file and wrote nothing, the backup is as it was
\* before the call: none after a first call, and after a second call none or
\* the content the file had before the edit of the first.
C31_BackupOnlyOnCommit ==
    (Unapplied /\ calls <= 2) =>
        /\ calls = 1 => bak[af.file] = NoBackup
        /\ bak[af.file] \in {NoBackup, [exists |-> TRUE, content |-> InitialContent(af.file)]}

(***************************************************************************)
(* The two modes of the controller, checked under SpecModes.               *)
(***************************************************************************)

\* the directive of the reply that apply_fix is working on
Current == ctl.fixes[ctl.fix_idx]

\* C32: in every mode the directive that reaches apply_fix is the one parsed
\* from the reply, its replace text unchanged, and a candidate that passed
\* the check is committed as it is: the file holds the content read with the
\* reply's search replaced by the reply's replace, in auto mode as in
\* interactive mode.
C32_ReplaceTextAsParsed ==
    pc = "in_fix" =>
        /\ af.fix = Current
        /\ (af.pc = "returned" /\ af.how = "direct") =>
               fs[af.file] = Candidate(af.pre, Current.search, Current.replace)

(***************************************************************************)
(* The repair pass on its own, checked under SpecRepair.                   *)
(***************************************************************************)

\* a row of the modifier table matches text
TableMatches(text) ==
    \E k \in 1..Len(ModifierTable) : Contains(text, <<ModifierTable[k][1], ModifierTable[k][2]>>)

\* C33: fix_php_syntax_errors runs its rules until none fires: no row of the
\* modifier table matches what it returns, and called again on what it
\* returned, with the same message, it changes nothing.
C33_RepairIsIdempotent ==
    fx.pc = "again" =>
        /\ ~TableMatches(fx.first.content)
        /\ fx.second.content = fx.first.content
        /\ ~fx.second.fixed

\* the paths tried in order: the normalized path joined to the project, the
\* path as the directive gives it, the path read against the working directory
Tried(raw, dir) ==
    << ProjectPath \o raw.comps,
       IF raw.lead = "/" THEN raw.comps ELSE dir \o raw.comps,
       dir \o raw.comps >>

\* the file the resolution order gives: the first path tried that exists
\* outside the protected zone, else the file of that name under src/, under
\* tests/, in the first directory of the walk
ResolvedInOrder(raw, dir) ==
    LET tried == Tried(raw, dir)
        hits  == {i \in 1..Len(tried) : IsFile(tried[i]) /\ ~Protected(tried[i])}
        base  == Basename(raw.comps)
        src   == ProjectPath \o <<"src", base>>
        tests == ProjectPath \o <<"tests", base>>
    IN  IF hits /= {} THEN {tried[CHOOSE i \in hits : \A j \in hits : i <= j]}
        ELSE IF IsFile(src) THEN {src}
        ELSE IF IsFile(tests) THEN {tests}
        ELSE WalkFirst(base)

\* C34: apply_fix settles on the first of these that exists: the project-
\* joined path, the path as given (an absolute path that exists is that very
\* file), the path against the working directory, and only then a file of the
\* same name under src/, tests/ or found by the walk.  Stated for the tool
\* started in the project directory and a path that names no protected file.
C34_ResolutionOrder ==
    (cwd = ProjectPath /\ af.pc /= "idle" /\ ~NamesProtectedFile(af.fix.file_path))
    => IF ResolvedInOrder(af.fix.file_path, cwd) = {} THEN af.file = NoPath
       ELSE af.file \in ResolvedInOrder(af.fix.file_path, cwd)

(***************************************************************************)
(* The controller's last iteration, checked under Spec.                    *)
(***************************************************************************)

\* every directive of the iteration was applied, and the tests have not been
\* run with a result that decides convergence since
EditsNotTested == obs.applies > 0 /\ ~obs.failed

\* C35: an iteration that applies an edit is followed, before the run ends,
\* by a test run whose result decides convergence: the run does not end
\* without convergence straight after an iteration whose directives were all
\* applied.
C35_EditsAreTested ==
    pc = "done_false" => ~EditsNotTested

\* C36: in interactive mode a directive reaches apply_fix only after the
\* operator answered yes to the batch; after a no, and when no input is
\* available, no directive of the batch is applied.
C36_AppliedOnlyOnYes ==
    (~ctl.auto_mode /\ pc \in {"apply", "in_fix"}) => ctl.answer = "y"

\* the place of file's first record in share
FirstOf(share, file) ==
    CHOOSE i \in 1..Len(share) :
        share[i].file = file /\ \A k \in 1..(i - 1) : share[k].file /= file

\* C37: grouping by file keeps the order of encounter.  In every batch each
\* file has one group, the group holds the slice's records of that file in
\* the slice's order, the groups come in the order in which their files first
\* occur in the slice, and together they hold the slice's records once each.
C37_GroupingKeepsOrder ==
    Batched =>
        \A j \in 1..Len(rp.batches) :
           LET groups == rp.batches[j].errors_by_file
               share  == Share(rp.errors, j - 1, rp.B)
           IN  /\ \A a, b \in 1..Len(groups) : groups[a].file = groups[b].file => a = b
               /\ \A a \in 1..Len(groups) :
                     /\ groups[a].errors /= <<>>
                     /\ groups[a].errors = SelectSeq(share, LAMBDA e : e.file = groups[a].file)
               /\ \A a, b \in 1..Len(groups) :
                     a < b => FirstOf(share, groups[a].file) < FirstOf(share, groups[b].file)
               /\ \A i \in 1..Len(share) :
                     Count(Records(groups), share[i]) = Count(share, share[i])
               /\ Len(Records(groups)) = Len(share)

\* a batch of three records whose first and third are of one file and whose
\* second is of another
C37_Witness ==
    /\ rp.pc = "done"
    /\ rp.B = 3
    /\ Len(rp.errors) >= 3
    /\ rp.errors[1].file = rp.errors[3].file
    /\ rp.errors[1].file /= rp.errors[2].file
    /\ rp.errors[1] /= rp.errors[3]
    /\ Len(rp.batches[1].errors_by_file) = 2
    /\ rp.batches[1].errors_by_file[1].errors = <<rp.errors[1], rp.errors[3]>>

(***************************************************************************)
(* Termination of the controller, checked under SpecLive.                  *)
(***************************************************************************)

\* the iterations a run with this max_iterations can make
IterationsAllowed == IF ctl.max_iterations > 0 THEN ctl.max_iterations ELSE 0

\* C38: process_phpunit_errors terminates whatever max_iterations is and
\* whatever the test runner, the oracle and the operator do, after at most
\* max_iterations iterations and as many test runs, also when the test runs
\* fail without batches; with max_iterations <= 0 it returns False and runs
\* no test.
C38_Terminates ==
    /\ <>(pc \in Terminal)
    /\ [](/\ ctl.iteration <= IterationsAllowed
          /\ obs.test_runs <= IterationsAllowed
          /\ (ctl.max_iterations <= 0 /\ pc \in Terminal) =>
                 (pc = "done_false" /\ obs.test_runs = 0 /\ calls = 0))

\* two iterations whose test runs failed without batches, then False
C38_Witness ==
    /\ pc = "done_false"
    /\ ctl.max_iterations = 2
    /\ ctl.iteration = 2
    /\ obs.test_runs = 2
    /\ obs.passes = 0
    /\ obs.requests = 0
    /\ ctl.nbatches = 0
    /\ calls = 0

(***************************************************************************)
(* The scratch files, checked under SpecScratch.                           *)
(***************************************************************************)

\* C39: when run_phpunit_tests or check_php_syntax has returned or raised,
\* its scratch file does not exist any more, on every way out; no scratch
\* file of an earlier call is left, however many calls were made.
C39_ScratchReleased ==
    /\ tmp.left = 0
    /\ tmp.pc \in {"idle", "returned"} => ~tmp.exists

\* check_php_syntax has failed to run php after other calls, and its file is gone
C39_Witness ==
    /\ tmp.pc = "returned"
    /\ tmp.fn = "check_php_syntax"
    /\ tmp.path = "run_failed"
    /\ tmp.done >= 2
    /\ ~tmp.exists

====
